---- MODULE Spec2Model ----
(***************************************************************************)
(* Resource governance layer of the MCP server: the per-category           *)
(* concurrency limiter (PerformanceMonitor.withConcurrencyLimit), the LRU  *)
(* cache with TTL (LRUCache), and the fixed-window rate limiter            *)
(* (RateLimiter) with the wrappers that put operations behind it.          *)
(***************************************************************************)
EXTENDS Integers, Sequences, FiniteSets, TLC

(***************************************************************************)
(* Bounds of the model.                                                    *)
(***************************************************************************)
\* number of withConcurrencyLimit calls made during one run
NumCalls == 3
\* scaled-down concurrency ceilings (the configuration holds 10 / 5 / 3)
MaxConcurrentFileOps == 2
MaxConcurrentSearches == 1
MaxConcurrentCommands == 1
\* the cache is built with maxSize in 1..MaxCacheSize
MaxCacheSize == 2
\* scaled-down time-to-live, in clock ticks (the configuration holds 300000 ms)
CacheTtl == 1
\* the clock runs from 0 to MaxTime
MaxTime == 3
\* cap of each of the hit, miss and eviction counters (an entry's accessCount
\* is then at most 1 + MaxStat: clear resets the counters and empties the Map)
MaxStat == 2
\* scaled-down request ceiling of one rate window (the configuration holds 100)
MaxRequests == 2
\* milliseconds between two readings of the rate limiter's clock
MsPerTick == 500
\* length of a rate window, in clock ticks (the configuration holds 60000 ms)
WindowTicks == 3
\* the rate limiter's clock runs from 0 to MaxRateTicks ticks
MaxRateTicks == 6

\* `/ 1000` of checkLimit and getStatus: milliseconds in a second
MsPerSecond == 1000
\* scaled-down maxExecutionTime of createSecureFunction, in clock ticks (the
\* default is 30000 ms)
MaxExecutionTicks == 2
\* paths are built from up to MaxSegments segments
MaxSegments == 2
\* a small options.maxLength callers pass
ShortMaxLength == 8

\* the default of options.maxLength
DefaultMaxLength == 1000
\* commands are built from up to MaxCommandLen symbols
MaxCommandLen == 2
\* and are passed with up to MaxArgs arguments
MaxArgs == 2
\* `arg.length > 1000` of validateCommand
MaxArgumentLength == 1000

VARIABLES
  concurrencyLimiters, \* category -> [maxConcurrent, current, queue]
  pc,                  \* position of each withConcurrencyLimit call
  cat,                 \* the category each call was made with
  opOutcome,           \* how the call's operation settled
  result,              \* what the call handed back to its caller
  invoked,             \* calls whose operation() has been invoked
  releases,            \* per call: how often it ran `limiter.current--`
  micro,               \* pending promise continuations, in queueing order
  waited,              \* calls that were suspended in a wait queue
  cache,               \* LRUCache.cache: the Map's entries in insertion order
  stats,               \* LRUCache.stats: hits, misses, evictions
  enabled,             \* LRUCache.enabled
  maxSize,             \* LRUCache.maxSize
  now,                 \* the clock Date.now() reads
  hung,                \* a cache operation is looping without end
  last,                \* the last cache operation: its arguments and what it returned
  recency,             \* keys by their last successful get or set, oldest first
  store,               \* RateLimiter.store: identifier -> [count, resetTime, firstRequest]
  rateEnabled,         \* RateLimiter.enabled
  clock,               \* what Date.now() returns to the rate limiter, in ms
  call,                \* the last rate limiter call: who made it and what came back
  window,              \* per identifier: the calls of checkLimit in its current window
  unswept,             \* the store as it would be had no sweep ever run
  unsweptRet,          \* what the last call would have returned on `unswept`
  secure,              \* the call in progress of a function built by createSecureFunction
  securityConfig,      \* securityConfig: allowedDirectories, blockedDirectories
  pathCall,            \* the last validatePath call: its arguments and its outcome
  cmdInput,            \* the command and the arguments a caller passes
  cmdCall,             \* the validateCommand call on them: its outcome
  execCall             \* the executeCommand call on them: what reached exec, its result

limVars == <<concurrencyLimiters, pc, cat, opOutcome, result, invoked, releases, micro, waited>>
cacheVars == <<cache, stats, enabled, maxSize, now, hung, last, recency>>
rateVars == <<store, rateEnabled, clock, call, window, unswept, unsweptRet>>
secVars == <<secure>>
inputVars == <<securityConfig, pathCall, cmdInput, cmdCall, execCall>>
\* the request-facing layer: the secure wrapper and the input validators
edgeVars == <<secVars, inputVars>>
vars == <<limVars, cacheVars, rateVars, edgeVars>>

(***************************************************************************)
(* PerformanceMonitor: the concurrency limiter                             *)
(***************************************************************************)
Calls == 1..NumCalls

\* the categories the constructor registers
Categories == {"fileOps", "searches", "commands"}

\* what a caller may pass as category: the registered ones and one that is not
CategoryInputs == Categories \cup {"uploads"}

\* how a guarded operation can settle: resolve, reject, reject by a lost timeout race
Outcomes == {"success", "failure", "timeout"}

ConfiguredMax(c) ==
  CASE c = "fileOps"  -> MaxConcurrentFileOps
    [] c = "searches" -> MaxConcurrentSearches
    [] c = "commands" -> MaxConcurrentCommands

\* constructor: one limiter per category, current 0, empty queue
LimInit ==
  /\ concurrencyLimiters =
       [c \in Categories |-> [maxConcurrent |-> ConfiguredMax(c), current |-> 0, queue |-> <<>>]]
  /\ pc = [p \in Calls |-> "idle"]
  /\ cat = [p \in Calls |-> "none"]
  /\ opOutcome = [p \in Calls |-> "none"]
  /\ result = [p \in Calls |-> "none"]
  /\ invoked = {}
  /\ releases = [p \in Calls |-> 0]
  /\ micro = <<>>
  /\ waited = {}

\* one counter shared by all categories: `current++` on every limiter
AdmitGlobal(p, c) ==
  /\ concurrencyLimiters' =
       [k \in Categories |->
          [concurrencyLimiters[k] EXCEPT !.current = concurrencyLimiters[k].current + 1]]
  /\ invoked' = invoked \cup {p}

\* `limiter.current++` followed by the call of operation()
Admit(p, c) ==
  /\ concurrencyLimiters' =
       [concurrencyLimiters EXCEPT ![c].current = concurrencyLimiters[c].current + 1]
  /\ invoked' = invoked \cup {p}

\* CallUnknown without the `if (!limiter) throw`: the operation runs unguarded
CallUnknownAdmitted(p, c) ==
  /\ c \notin DOMAIN concurrencyLimiters
  /\ pc' = [pc EXCEPT ![p] = "done"]
  /\ result' = [result EXCEPT ![p] = "success"]
  /\ invoked' = invoked \cup {p}
  /\ UNCHANGED <<concurrencyLimiters, micro, waited>>

\* withConcurrencyLimit up to its first suspension point.  Calls are numbered in
\* the order in which they are made.
CallUnknown(p, c) ==
  /\ c \notin DOMAIN concurrencyLimiters
  /\ pc' = [pc EXCEPT ![p] = "done"]
  /\ result' = [result EXCEPT ![p] = "UnknownCategoryError"]
  /\ UNCHANGED <<concurrencyLimiters, invoked, micro, waited>>

CallQueued(p, c) ==
  /\ c \in DOMAIN concurrencyLimiters
  /\ concurrencyLimiters[c].current >= concurrencyLimiters[c].maxConcurrent
  /\ concurrencyLimiters' =
       [concurrencyLimiters EXCEPT ![c].queue = Append(concurrencyLimiters[c].queue, p)]
  /\ pc' = [pc EXCEPT ![p] = "waiting"]
  /\ waited' = waited \cup {p}
  /\ UNCHANGED <<result, invoked, micro>>

CallAdmitted(p, c) ==
  /\ c \in DOMAIN concurrencyLimiters
  /\ concurrencyLimiters[c].current < concurrencyLimiters[c].maxConcurrent
  /\ Admit(p, c)
  /\ pc' = [pc EXCEPT ![p] = "running"]
  /\ UNCHANGED <<result, micro, waited>>

Call(p, c) ==
  /\ pc[p] = "idle"
  /\ \A q \in Calls : q < p => pc[q] # "idle"
  /\ cat' = [cat EXCEPT ![p] = c]
  /\ UNCHANGED <<opOutcome, releases, cacheVars, rateVars, edgeVars>>
  /\ \/ CallUnknown(p, c)
     \/ CallQueued(p, c)
     \/ CallAdmitted(p, c)

\* a woken waiter's continuation runs: the code after the `await new Promise`
Resume(p) ==
  /\ micro # <<>>
  /\ Head(micro) = p
  /\ pc[p] = "woken"
  /\ micro' = Tail(micro)
  /\ Admit(p, cat[p])
  /\ pc' = [pc EXCEPT ![p] = "running"]
  /\ UNCHANGED <<cat, opOutcome, result, releases, waited, cacheVars, rateVars, edgeVars>>

\* the promise returned by operation() settles; the continuation of
\* `await operation()` is queued
Settle(p, o) ==
  /\ pc[p] = "running"
  /\ opOutcome' = [opOutcome EXCEPT ![p] = o]
  /\ pc' = [pc EXCEPT ![p] = "settled"]
  /\ micro' = Append(micro, p)
  /\ UNCHANGED <<concurrencyLimiters, cat, result, invoked, releases, waited, cacheVars, rateVars, edgeVars>>

\* Release without `finally`: the slot is given back only when the operation
\* resolved
ReleaseOnSuccessOnly(p) ==
  LET c == cat[p]
      l == concurrencyLimiters[c]
      ok == opOutcome[p] = "success"
      woken == IF l.queue = <<>> \/ ~ok THEN {} ELSE {Head(l.queue)}
  IN /\ concurrencyLimiters' =
          IF ok
            THEN [concurrencyLimiters EXCEPT
                    ![c].current = l.current - 1,
                    ![c].queue = IF l.queue = <<>> THEN <<>> ELSE Tail(l.queue)]
            ELSE concurrencyLimiters
     /\ releases' = [releases EXCEPT ![p] = IF ok THEN releases[p] + 1 ELSE releases[p]]
     /\ pc' = [q \in Calls |-> IF q = p THEN "done" ELSE IF q \in woken THEN "woken" ELSE pc[q]]
     /\ micro' = IF l.queue = <<>> \/ ~ok THEN Tail(micro) ELSE Append(Tail(micro), Head(l.queue))

\* a finally block that gives the slot back but wakes nobody
ReleaseWithoutWake(p) ==
  LET c == cat[p]
  IN /\ concurrencyLimiters' =
          [concurrencyLimiters EXCEPT ![c].current = concurrencyLimiters[c].current - 1]
     /\ releases' = [releases EXCEPT ![p] = releases[p] + 1]
     /\ pc' = [pc EXCEPT ![p] = "done"]
     /\ micro' = Tail(micro)

\* a finally block that shifts the queue but never calls what it shifted
ReleaseDropsWaiter(p) ==
  LET c == cat[p]
      l == concurrencyLimiters[c]
  IN /\ concurrencyLimiters' =
          [concurrencyLimiters EXCEPT
             ![c].current = l.current - 1,
             ![c].queue = IF l.queue = <<>> THEN <<>> ELSE Tail(l.queue)]
     /\ releases' = [releases EXCEPT ![p] = releases[p] + 1]
     /\ pc' = [pc EXCEPT ![p] = "done"]
     /\ micro' = Tail(micro)

\* the finally block: current--, queue.shift(), next()
Release(p) ==
  LET c == cat[p]
      l == concurrencyLimiters[c]
      woken == IF l.queue = <<>> THEN {} ELSE {Head(l.queue)}
  IN /\ concurrencyLimiters' =
          [concurrencyLimiters EXCEPT
             ![c].current = l.current - 1,
             ![c].queue = IF l.queue = <<>> THEN <<>> ELSE Tail(l.queue)]
     /\ releases' = [releases EXCEPT ![p] = releases[p] + 1]
     /\ pc' = [q \in Calls |-> IF q = p THEN "done" ELSE IF q \in woken THEN "woken" ELSE pc[q]]
     /\ micro' = IF l.queue = <<>> THEN Tail(micro) ELSE Append(Tail(micro), Head(l.queue))

\* the continuation of `await operation()`: return the result or rethrow,
\* through the finally block
Finish(p) ==
  /\ micro # <<>>
  /\ Head(micro) = p
  /\ pc[p] = "settled"
  /\ Release(p)
  /\ result' = [result EXCEPT ![p] = opOutcome[p]]
  /\ UNCHANGED <<cat, opOutcome, invoked, waited, cacheVars, rateVars, edgeVars>>

LimNext ==
  \/ \E p \in Calls, c \in CategoryInputs : Call(p, c)
  \/ \E p \in Calls : Resume(p)
  \/ \E p \in Calls, o \in Outcomes : Settle(p, o)
  \/ \E p \in Calls : Finish(p)

(***************************************************************************)
(* LRUCache                                                                *)
(***************************************************************************)
\* the keys callers use; the empty string is a legal Map key
Keys == {"", "a", "b"}
Values == {"v1", "v2"}

\* get's `undefined`
Miss == "undefined"

\* estimateSize of a string value: UTF-16 code units
EstimateSize(v) == Len(v) * 2

KeysOf(c) == {c[i].key : i \in 1..Len(c)}
EntryOf(c, k) == c[CHOOSE i \in 1..Len(c) : c[i].key = k]
\* Map.delete(k)
MapDelete(c, k) == SelectSeq(c, LAMBDA e : e.key # k)
\* Map.set(k, e): a stored key keeps its place, a new one goes last
MapSet(c, e) ==
  IF e.key \in KeysOf(c)
    THEN [i \in 1..Len(c) |-> IF c[i].key = e.key THEN e ELSE c[i]]
    ELSE Append(c, e)
\* `now - entry.timestamp > this.ttl`
Expired(e, t) == t - e.timestamp > CacheTtl

Observed(op, k, v, had, ret) == [op |-> op, key |-> k, value |-> v, had |-> had, ret |-> ret]

\* constructor
CacheInitWith(en, ms) ==
  /\ cache = <<>>
  /\ stats = [hits |-> 0, misses |-> 0, evictions |-> 0]
  /\ enabled = en
  /\ maxSize = ms
  /\ now = 0
  /\ hung = FALSE
  /\ last = Observed("new", "", "", FALSE, "")
  /\ recency = <<>>

CacheInit == \E en \in BOOLEAN, ms \in 1..MaxCacheSize : CacheInitWith(en, ms)

\* get without the move to the end of the Map
GetOpInPlace(k) ==
  IF ~enabled THEN [cache |-> cache, stats |-> stats, ret |-> Miss]
  ELSE IF k \notin KeysOf(cache)
    THEN [cache |-> cache, stats |-> [stats EXCEPT !.misses = @ + 1], ret |-> Miss]
  ELSE LET entry == EntryOf(cache, k) IN
    IF Expired(entry, now)
      THEN [cache |-> MapDelete(cache, k), stats |-> [stats EXCEPT !.misses = @ + 1], ret |-> Miss]
      ELSE LET e2 == [entry EXCEPT !.accessCount = @ + 1, !.lastAccessed = now]
           IN [cache |-> MapSet(cache, e2),
               stats |-> [stats EXCEPT !.hits = @ + 1], ret |-> entry.value]

\* get that also renews the entry's timestamp on a hit (a sliding TTL)
GetOpSliding(k) ==
  IF ~enabled THEN [cache |-> cache, stats |-> stats, ret |-> Miss]
  ELSE IF k \notin KeysOf(cache)
    THEN [cache |-> cache, stats |-> [stats EXCEPT !.misses = @ + 1], ret |-> Miss]
  ELSE LET entry == EntryOf(cache, k) IN
    IF Expired(entry, now)
      THEN [cache |-> MapDelete(cache, k), stats |-> [stats EXCEPT !.misses = @ + 1], ret |-> Miss]
      ELSE LET e2 == [entry EXCEPT !.accessCount = @ + 1, !.lastAccessed = now, !.timestamp = now]
           IN [cache |-> Append(MapDelete(cache, k), e2),
               stats |-> [stats EXCEPT !.hits = @ + 1], ret |-> entry.value]

\* get without the `if (!this.enabled)` line
GetOpAlwaysOn(k) ==
  IF k \notin KeysOf(cache)
    THEN [cache |-> cache, stats |-> [stats EXCEPT !.misses = @ + 1], ret |-> Miss]
  ELSE LET entry == EntryOf(cache, k) IN
    IF Expired(entry, now)
      THEN [cache |-> MapDelete(cache, k), stats |-> [stats EXCEPT !.misses = @ + 1], ret |-> Miss]
      ELSE LET e2 == [entry EXCEPT !.accessCount = @ + 1, !.lastAccessed = now]
           IN [cache |-> Append(MapDelete(cache, k), e2),
               stats |-> [stats EXCEPT !.hits = @ + 1], ret |-> entry.value]

\* get that drops an expired entry without counting a miss
GetOpExpiredUncounted(k) ==
  IF ~enabled THEN [cache |-> cache, stats |-> stats, ret |-> Miss]
  ELSE IF k \notin KeysOf(cache)
    THEN [cache |-> cache, stats |-> [stats EXCEPT !.misses = @ + 1], ret |-> Miss]
  ELSE LET entry == EntryOf(cache, k) IN
    IF Expired(entry, now)
      THEN [cache |-> MapDelete(cache, k), stats |-> stats, ret |-> Miss]
      ELSE LET e2 == [entry EXCEPT !.accessCount = @ + 1, !.lastAccessed = now]
           IN [cache |-> Append(MapDelete(cache, k), e2),
               stats |-> [stats EXCEPT !.hits = @ + 1], ret |-> entry.value]

\* get(key): what it leaves stored and counted, and what it returns
GetOp(k) ==
  IF ~enabled THEN [cache |-> cache, stats |-> stats, ret |-> Miss]
  ELSE IF k \notin KeysOf(cache)
    THEN [cache |-> cache, stats |-> [stats EXCEPT !.misses = @ + 1], ret |-> Miss]
  ELSE LET entry == EntryOf(cache, k) IN
    IF Expired(entry, now)
      THEN [cache |-> MapDelete(cache, k), stats |-> [stats EXCEPT !.misses = @ + 1], ret |-> Miss]
      ELSE LET e2 == [entry EXCEPT !.accessCount = @ + 1, !.lastAccessed = now]
           IN [cache |-> Append(MapDelete(cache, k), e2),
               stats |-> [stats EXCEPT !.hits = @ + 1], ret |-> entry.value]

\* has that marks the entry it finds as used, the way get does
HasOpTouch(k) ==
  IF ~enabled THEN [cache |-> cache, ret |-> FALSE]
  ELSE IF k \notin KeysOf(cache) THEN [cache |-> cache, ret |-> FALSE]
  ELSE IF Expired(EntryOf(cache, k), now) THEN [cache |-> MapDelete(cache, k), ret |-> FALSE]
  ELSE [cache |-> Append(MapDelete(cache, k),
                         [EntryOf(cache, k) EXCEPT !.accessCount = @ + 1, !.lastAccessed = now]),
        ret |-> TRUE]

\* has(key)
HasOp(k) ==
  IF ~enabled THEN [cache |-> cache, ret |-> FALSE]
  ELSE IF k \notin KeysOf(cache) THEN [cache |-> cache, ret |-> FALSE]
  ELSE IF Expired(EntryOf(cache, k), now) THEN [cache |-> MapDelete(cache, k), ret |-> FALSE]
  ELSE [cache |-> cache, ret |-> TRUE]

\* delete(key)
DeleteOp(k) ==
  IF ~enabled THEN [cache |-> cache, ret |-> FALSE]
  ELSE [cache |-> MapDelete(cache, k), ret |-> k \in KeysOf(cache)]

\* the eviction loop with `>` for `>=`: one entry too many is kept
RECURSIVE EvictLoopOffByOne(_, _)
EvictLoopOffByOne(c, ev) ==
  IF Len(c) <= maxSize THEN [cache |-> c, evictions |-> ev, hung |-> FALSE]
  ELSE IF c = <<>> \/ Head(c).key = "" THEN [cache |-> c, evictions |-> ev, hung |-> TRUE]
  ELSE EvictLoopOffByOne(Tail(c), ev + 1)

\* `while (this.cache.size >= this.maxSize) this.evictLRU()`.  evictLRU removes
\* the Map's first entry and counts it, but does nothing when the first key is
\* falsy (no entry, or the empty string): the loop then never ends.
RECURSIVE EvictLoop(_, _)
EvictLoop(c, ev) ==
  IF Len(c) < maxSize THEN [cache |-> c, evictions |-> ev, hung |-> FALSE]
  ELSE IF c = <<>> \/ Head(c).key = "" THEN [cache |-> c, evictions |-> ev, hung |-> TRUE]
  ELSE EvictLoop(Tail(c), ev + 1)

NewEntry(k, v) ==
  [key |-> k, value |-> v, timestamp |-> now, accessCount |-> 1,
   lastAccessed |-> now, size |-> EstimateSize(v)]

\* set that skips the removal of the stored entry
SetOpKeepOld(k, v) ==
  IF ~enabled THEN [cache |-> cache, evictions |-> stats.evictions, hung |-> FALSE]
  ELSE LET ev == EvictLoop(cache, stats.evictions)
       IN IF ev.hung THEN ev
          ELSE [cache |-> MapSet(ev.cache, NewEntry(k, v)), evictions |-> ev.evictions, hung |-> FALSE]

\* set that inserts first and evicts afterwards
SetOpEvictAfter(k, v) ==
  IF ~enabled THEN [cache |-> cache, evictions |-> stats.evictions, hung |-> FALSE]
  ELSE EvictLoop(MapSet(MapDelete(cache, k), NewEntry(k, v)), stats.evictions)

\* set(key, value)
SetOp(k, v) ==
  IF ~enabled THEN [cache |-> cache, evictions |-> stats.evictions, hung |-> FALSE]
  ELSE LET ev == EvictLoop(MapDelete(cache, k), stats.evictions)
       IN IF ev.hung THEN ev
          ELSE [cache |-> MapSet(ev.cache, NewEntry(k, v)), evictions |-> ev.evictions, hung |-> FALSE]

\* cleanup(): the periodic sweep
\* cleanup with `>=` for `>`: an entry is swept at the instant its age reaches the TTL
CleanupOpAtTtl == SelectSeq(cache, LAMBDA e : ~(now - e.timestamp >= CacheTtl))

\* cleanup(): the entries the sweep leaves in the Map, in the Map's order
CleanupOp == SelectSeq(cache, LAMBDA e : ~Expired(e, now))

\* the keys of `c` in the order of `r`, after key k (if `touched`) moved last
Touch(r, touched, k, c) ==
  LET moved == IF touched THEN Append(SelectSeq(r, LAMBDA x : x # k), k) ELSE r
  IN SelectSeq(moved, LAMBDA x : x \in KeysOf(c))

Get(k) ==
  LET r == GetOp(k) IN
  /\ ~hung
  /\ r.stats.hits <= MaxStat /\ r.stats.misses <= MaxStat
  /\ cache' = r.cache
  /\ stats' = r.stats
  /\ last' = Observed("get", k, "", k \in KeysOf(cache), r.ret)
  /\ recency' = Touch(recency, r.ret # Miss, k, r.cache)
  /\ UNCHANGED <<enabled, maxSize, now, hung, limVars, rateVars, edgeVars>>

Set(k, v) ==
  LET r == SetOp(k, v) IN
  /\ ~hung
  /\ r.evictions <= MaxStat
  /\ cache' = r.cache
  /\ stats' = [stats EXCEPT !.evictions = r.evictions]
  /\ hung' = r.hung
  /\ last' = Observed("set", k, v, k \in KeysOf(cache), "")
  /\ recency' = Touch(recency, ~r.hung /\ k \in KeysOf(r.cache), k, r.cache)
  /\ UNCHANGED <<enabled, maxSize, now, limVars, rateVars, edgeVars>>

Has(k) ==
  LET r == HasOp(k) IN
  /\ ~hung
  /\ cache' = r.cache
  /\ last' = Observed("has", k, "", k \in KeysOf(cache), IF r.ret THEN "true" ELSE "false")
  /\ recency' = Touch(recency, FALSE, k, r.cache)
  /\ UNCHANGED <<stats, enabled, maxSize, now, hung, limVars, rateVars, edgeVars>>

Delete(k) ==
  LET r == DeleteOp(k) IN
  /\ ~hung
  /\ cache' = r.cache
  /\ last' = Observed("delete", k, "", k \in KeysOf(cache), IF r.ret THEN "true" ELSE "false")
  /\ recency' = Touch(recency, FALSE, k, r.cache)
  /\ UNCHANGED <<stats, enabled, maxSize, now, hung, limVars, rateVars, edgeVars>>

\* clear()
Clear ==
  /\ ~hung
  /\ cache' = <<>>
  /\ stats' = [hits |-> 0, misses |-> 0, evictions |-> 0]
  /\ last' = Observed("clear", "", "", FALSE, "")
  /\ recency' = <<>>
  /\ UNCHANGED <<enabled, maxSize, now, hung, limVars, rateVars, edgeVars>>

\* the interval timer the constructor starts when the cache is enabled
Cleanup ==
  /\ ~hung
  /\ enabled
  /\ cache' = CleanupOp
  /\ last' = Observed("cleanup", "", "", CleanupOp # cache, "")
  /\ recency' = Touch(recency, FALSE, "", CleanupOp)
  /\ UNCHANGED <<stats, enabled, maxSize, now, hung, limVars, rateVars, edgeVars>>

\* time passes
Tick ==
  /\ ~hung
  /\ now < MaxTime
  /\ now' = now + 1
  /\ last' = Observed("tick", "", "", FALSE, "")
  /\ UNCHANGED <<cache, stats, enabled, maxSize, hung, recency, limVars, rateVars, edgeVars>>

CacheNext ==
  \/ \E k \in Keys : Get(k)
  \/ \E k \in Keys, v \in Values : Set(k, v)
  \/ \E k \in Keys : Has(k)
  \/ \E k \in Keys : Delete(k)
  \/ Clear
  \/ Cleanup
  \/ Tick

(***************************************************************************)
(* RateLimiter: fixed request windows per identifier                       *)
(***************************************************************************)
\* the identifiers callers present
Ids == {"u1", "u2"}

\* what withSecurity may get as rateLimitId; "" stands for the falsy ones
\* (undefined, the empty string), for which it skips the limiter
RateLimitIdInputs == Ids \cup {""}

\* securityConfig.rateLimiting.windowMs
WindowMs == WindowTicks * MsPerTick

\* Math.ceil(a / b) for b > 0
Ceil(a, b) == -((-a) \div b)

\* interface RateLimitEntry
RateLimitEntry(c, rt, fr) == [count |-> c, resetTime |-> rt, firstRequest |-> fr]

\* interface RateLimitResult; retryAfter is {} when the field is absent
RateLimitResult(al, rem, rt, ra) ==
  [allowed |-> al, remaining |-> rem, resetTime |-> rt, retryAfter |-> ra]

\* new Map()
EmptyStore == [x \in {} |-> RateLimitEntry(0, 0, 0)]

\* a store that keeps one entry for all identifiers
StoreSetShared(st, id, e) == [x \in (DOMAIN st) \cup {id} |-> e]

\* store.set(id, e)
StoreSet(st, id, e) == [x \in (DOMAIN st) \cup {id} |-> IF x = id THEN e ELSE st[x]]

\* store.delete(id)
StoreDelete(st, id) == [x \in (DOMAIN st) \ {id} |-> st[x]]

\* the limiter that never takes the `if (!this.enabled)` exit
BypassedNever == FALSE

\* `if (!this.enabled)` of checkLimit and getStatus
Bypassed == ~rateEnabled

\* what both return when disabled
DisabledResult(t) == RateLimitResult(TRUE, MaxRequests, t + WindowMs, {})

\* the window test with `>` for `>=`: at now = resetTime the old window still counts
WindowOverStrict(e, t) == t > e.resetTime

\* `now >= entry.resetTime`
WindowOver(e, t) == t >= e.resetTime

\* the limit test with `>` for `>=`: one request too many is counted
AtLimitOffByOne(e) == e.count > MaxRequests

\* `entry.count >= this.maxRequests`
AtLimit(e) == e.count >= MaxRequests

\* the delay rounded down: Math.floor for Math.ceil
RetryAfterFloor(e, t) == (e.resetTime - t) \div MsPerSecond

\* `Math.ceil((entry.resetTime - now) / 1000)`
RetryAfter(e, t) == Ceil(e.resetTime - t, MsPerSecond)

\* checkLimit, no entry or window over: a new window holding this request
FreshWindow(st, id, t) ==
  [store |-> StoreSet(st, id, RateLimitEntry(1, t + WindowMs, t)),
   ret |-> RateLimitResult(TRUE, MaxRequests - 1, t + WindowMs, {})]

\* a rejection that still counts the request
RejectedCounted(st, id, t) ==
  [store |-> StoreSet(st, id, [st[id] EXCEPT !.count = @ + 1]),
   ret |-> RateLimitResult(FALSE, 0, st[id].resetTime, {RetryAfter(st[id], t)})]

\* checkLimit, limit reached: nothing is stored
Rejected(st, id, t) ==
  [store |-> st,
   ret |-> RateLimitResult(FALSE, 0, st[id].resetTime, {RetryAfter(st[id], t)})]

\* checkLimit, below the limit: `entry.count++`
Counted(st, id, t) ==
  LET e == [st[id] EXCEPT !.count = @ + 1]
  IN [store |-> StoreSet(st, id, e),
      ret |-> RateLimitResult(TRUE, MaxRequests - e.count, e.resetTime, {})]

\* checkLimit(identifier) at time t on store st: the store it leaves and its result
CheckLimitOp(st, id, t) ==
  IF Bypassed THEN [store |-> st, ret |-> DisabledResult(t)]
  ELSE IF id \notin DOMAIN st THEN FreshWindow(st, id, t)
  ELSE IF WindowOver(st[id], t) THEN FreshWindow(st, id, t)
  ELSE IF AtLimit(st[id]) THEN Rejected(st, id, t)
  ELSE Counted(st, id, t)

\* Math.max(0, n)
Max0(n) == IF n > 0 THEN n ELSE 0

\* a status that reports the stored window even after it has run out
StatusResultStale(st, id, t) ==
  IF Bypassed THEN DisabledResult(t)
  ELSE IF id \notin DOMAIN st
    THEN RateLimitResult(TRUE, MaxRequests, t + WindowMs, {})
  ELSE RateLimitResult(st[id].count < MaxRequests, Max0(MaxRequests - st[id].count),
                       st[id].resetTime,
                       IF st[id].count >= MaxRequests THEN {RetryAfter(st[id], t)} ELSE {})

\* what getStatus returns
StatusResult(st, id, t) ==
  IF Bypassed THEN DisabledResult(t)
  ELSE IF id \notin DOMAIN st \/ WindowOver(st[id], t)
    THEN RateLimitResult(TRUE, MaxRequests, t + WindowMs, {})
  ELSE RateLimitResult(st[id].count < MaxRequests, Max0(MaxRequests - st[id].count),
                       st[id].resetTime,
                       IF st[id].count >= MaxRequests THEN {RetryAfter(st[id], t)} ELSE {})

\* getStatus that drops the expired window it finds (as the cache's has() does)
GetStatusOpLazyDelete(st, id, t) ==
  [store |-> IF ~Bypassed /\ id \in DOMAIN st /\ WindowOver(st[id], t)
               THEN StoreDelete(st, id) ELSE st,
   ret |-> StatusResult(st, id, t)]

\* getStatus(identifier)
GetStatusOp(st, id, t) == [store |-> st, ret |-> StatusResult(st, id, t)]

\* a sweep that empties the store
RateCleanupOpAll(st, t) == EmptyStore

\* cleanup(): deletes the entries with `now >= entry.resetTime`
RateCleanupOp(st, t) ==
  [x \in {y \in DOMAIN st : ~(t >= st[y].resetTime)} |-> st[x]]

\* what a wrapped operation does once invoked
OpOutcomes == {"success", "failure"}

\* what a wrapper's caller gets: no error, or an Error object with its message
\* (`seconds` is the number interpolated into it) and its own fields
NoError == [thrown |-> FALSE, message |-> "", seconds |-> {}, code |-> "", retryAfter |-> {}]

\* the operation's own rejection, passed on as it is
OperationError(o) ==
  IF o = "failure"
    THEN [thrown |-> TRUE, message |-> "operation failed", seconds |-> {},
          code |-> "", retryAfter |-> {}]
    ELSE NoError

\* new Error(`Rate limit exceeded. Try again in ${retryAfter} seconds.`)
PlainRateLimitError(ret) ==
  [thrown |-> TRUE, message |-> "Rate limit exceeded", seconds |-> ret.retryAfter,
   code |-> "", retryAfter |-> {}]

\* the same Error with `.code` and `.retryAfter` assigned
CodedRateLimitError(ret) ==
  [PlainRateLimitError(ret) EXCEPT !.code = "RATE_LIMIT_EXCEEDED",
                                   !.retryAfter = ret.retryAfter]

\* withRateLimit(operation, identifier)(...args), after checkLimit returned ret
WithRateLimitOp(ret, o) ==
  IF ~ret.allowed THEN [invoked |-> FALSE, error |-> CodedRateLimitError(ret)]
  ELSE [invoked |-> TRUE, error |-> OperationError(o)]

\* createRateLimitedFunction(fn, getIdentifier)(...args), after checkLimit returned ret
CreateRateLimitedFunctionOp(ret, o) ==
  IF ~ret.allowed THEN [invoked |-> FALSE, error |-> CodedRateLimitError(ret)]
  ELSE [invoked |-> TRUE, error |-> OperationError(o)]

\* withSecurity that records the rejection and goes on to the operation
WithSecurityOpLogOnly(checked, ret, o) ==
  [invoked |-> TRUE, error |-> OperationError(o)]

\* SecurityMiddleware.withSecurity(operation, {rateLimitId})(...args); `checked`
\* tells whether rateLimitId was truthy, so that checkLimit ran and returned ret
WithSecurityOp(checked, ret, o) ==
  IF checked /\ ~ret.allowed
    THEN [invoked |-> FALSE, error |-> PlainRateLimitError(ret)]
    ELSE [invoked |-> TRUE, error |-> OperationError(o)]

\* the placeholder result of a step that did not consult the limiter
NoResult == RateLimitResult(TRUE, 0, 0, {})

\* what is stored for id, as a set: empty when the Map has no such key
Before(id) == IF id \in DOMAIN store THEN {store[id]} ELSE {}

\* a call as its caller saw it; `before` is what the store held for the
\* identifier when the limiter was consulted
Called(op, id, checked, before, ret, inv, err) ==
  [op |-> op, id |-> id, checked |-> checked, before |-> before, ret |-> ret,
   invoked |-> inv, error |-> err]

\* the window of identifier id that a checkLimit call at this instant falls in,
\* counted by the caller: a window opens with the first call after none was
\* open (never called, reset) or after the previous one's windowMs ran out
NextWindow(id) ==
  IF ~window[id].open \/ clock >= window[id].start + WindowMs
    THEN [open |-> TRUE, start |-> clock, calls |-> 1]
    ELSE [window[id] EXCEPT !.calls = @ + 1]

\* constructor
RateInitWith(en) ==
  /\ store = EmptyStore
  /\ rateEnabled = en
  /\ clock = 0
  /\ call = Called("new", "", FALSE, {}, NoResult, FALSE, NoError)
  /\ window = [id \in Ids |-> [open |-> FALSE, start |-> 0, calls |-> 0]]
  /\ unswept = EmptyStore
  /\ unsweptRet = NoResult

RateInit == \E en \in BOOLEAN : RateInitWith(en)

\* one rateLimiter.checkLimit(id), as every caller of it below makes it
ThroughCheckLimit(id) ==
  /\ NextWindow(id).calls <= MaxRequests + 2
  /\ window' = [window EXCEPT ![id] = NextWindow(id)]
  /\ store' = CheckLimitOp(store, id, clock).store
  /\ unswept' = CheckLimitOp(unswept, id, clock).store
  /\ unsweptRet' = CheckLimitOp(unswept, id, clock).ret

CheckLimit(id) ==
  /\ ThroughCheckLimit(id)
  /\ call' = Called("checkLimit", id, TRUE, Before(id), CheckLimitOp(store, id, clock).ret, FALSE, NoError)
  /\ UNCHANGED <<rateEnabled, clock, limVars, cacheVars, edgeVars>>

GetStatus(id) ==
  /\ store' = GetStatusOp(store, id, clock).store
  /\ unswept' = GetStatusOp(unswept, id, clock).store
  /\ unsweptRet' = GetStatusOp(unswept, id, clock).ret
  /\ call' = Called("getStatus", id, FALSE, Before(id), GetStatusOp(store, id, clock).ret, FALSE, NoError)
  /\ UNCHANGED <<rateEnabled, clock, window, limVars, cacheVars, edgeVars>>

Reset(id) ==
  /\ store' = StoreDelete(store, id)
  /\ unswept' = StoreDelete(unswept, id)
  /\ unsweptRet' = NoResult
  /\ window' = [window EXCEPT ![id] = [open |-> FALSE, start |-> 0, calls |-> 0]]
  /\ call' = Called("reset", id, FALSE, {}, NoResult, FALSE, NoError)
  /\ UNCHANGED <<rateEnabled, clock, limVars, cacheVars, edgeVars>>

\* the interval timer the constructor starts when the limiter is enabled
RateCleanup ==
  /\ rateEnabled
  /\ store' = RateCleanupOp(store, clock)
  /\ unsweptRet' = NoResult
  /\ call' = Called("cleanup", "", FALSE, {}, NoResult, FALSE, NoError)
  /\ UNCHANGED <<rateEnabled, clock, window, unswept, limVars, cacheVars, edgeVars>>

\* time passes
RateTick ==
  /\ clock < MaxRateTicks * MsPerTick
  /\ clock' = clock + MsPerTick
  /\ unsweptRet' = NoResult
  /\ call' = Called("tick", "", FALSE, {}, NoResult, FALSE, NoError)
  /\ UNCHANGED <<store, rateEnabled, window, unswept, limVars, cacheVars, edgeVars>>

\* a call of a function built by withRateLimit(operation, id)
WithRateLimit(id, o) ==
  LET ret == CheckLimitOp(store, id, clock).ret
      w == WithRateLimitOp(ret, o)
  IN /\ ThroughCheckLimit(id)
     /\ call' = Called("withRateLimit", id, TRUE, Before(id), ret, w.invoked, w.error)
     /\ UNCHANGED <<rateEnabled, clock, limVars, cacheVars, edgeVars>>

\* a call of a function built by createRateLimitedFunction(fn, getIdentifier),
\* for arguments that getIdentifier maps to id
CreateRateLimitedFunction(id, o) ==
  LET ret == CheckLimitOp(store, id, clock).ret
      w == CreateRateLimitedFunctionOp(ret, o)
  IN /\ ThroughCheckLimit(id)
     /\ call' = Called("createRateLimitedFunction", id, TRUE, Before(id), ret, w.invoked, w.error)
     /\ UNCHANGED <<rateEnabled, clock, limVars, cacheVars, edgeVars>>

\* a call of a function built by withSecurity(operation, {rateLimitId: id})
WithSecurity(id, o) ==
  IF id # ""
    THEN LET ret == CheckLimitOp(store, id, clock).ret
             w == WithSecurityOp(TRUE, ret, o)
         IN /\ ThroughCheckLimit(id)
            /\ call' = Called("withSecurity", id, TRUE, Before(id), ret, w.invoked, w.error)
            /\ UNCHANGED <<rateEnabled, clock, limVars, cacheVars, edgeVars>>
    ELSE LET w == WithSecurityOp(FALSE, NoResult, o)
         IN /\ call' = Called("withSecurity", id, FALSE, {}, NoResult, w.invoked, w.error)
            /\ unsweptRet' = NoResult
            /\ UNCHANGED <<store, rateEnabled, clock, window, unswept, limVars, cacheVars, edgeVars>>

(***************************************************************************)
(* SecurityValidator.validatePath                                          *)
(*                                                                         *)
(* A string is a sequence of symbols.  A symbol is one character ("/",     *)
(* ".", ":", "\\", "$", the control bytes NUL and TAB) or a run of letters *)
(* or digits that is kept whole ("src", "2", "exe"); no run is the start   *)
(* of another one, so that prefixes and substrings of symbols are prefixes *)
(* and substrings of characters.  Path functions are those of POSIX.       *)
(***************************************************************************)
\* the runs of letters and digits, with the number of their characters
Runs ==
  [app |-> 3, src |-> 3, priv |-> 4, x |-> 1, c |-> 1, notes |-> 5, txt |-> 3,
   malware |-> 7, MALWARE |-> 7, exe |-> 3, EXE |-> 3, etc |-> 3, ETC |-> 3,
   passwd |-> 6, shadow |-> 6, proc |-> 4, sys |-> 3, boot |-> 4, root |-> 4,
   dev |-> 3, share |-> 5, rm |-> 2, RM |-> 2, ls |-> 2, echo |-> 4,
   rf |-> 2, alarm |-> 5, long |-> 1001] @@ ("2" :> 1)

\* the runs that are not made of letters only
DigitRuns == {"2"}

\* the bytes /[\x00-\x1f\x7f-\x9f]/ matches
ControlBytes == {"NUL", "TAB"}

IsRun(y) == y \in DOMAIN Runs

IsLetters(y) == IsRun(y) /\ y \notin DigitRuns

\* String.prototype.length
Width(str) ==
  LET RECURSIVE W(_)
      W(t) == IF t = <<>> THEN 0
              ELSE (IF IsRun(Head(t)) THEN Runs[Head(t)] ELSE 1) + W(Tail(t))
  IN W(str)

\* String.prototype.toLowerCase, symbol by symbol
LowerSym(y) ==
  CASE y = "MALWARE" -> "malware"
    [] y = "EXE" -> "exe"
    [] y = "ETC" -> "etc"
    [] y = "RM" -> "rm"
    [] OTHER -> y

ToLowerCase(str) == [i \in 1..Len(str) |-> LowerSym(str[i])]

\* String.prototype.startsWith
StartsWith(str, pre) == Len(pre) <= Len(str) /\ SubSeq(str, 1, Len(pre)) = pre

\* String.prototype.includes
Includes(str, sub) ==
  \E i \in 1..(Len(str) - Len(sub) + 1) : SubSeq(str, i, i + Len(sub) - 1) = sub

\* str.split("/")
Split(str) ==
  LET RECURSIVE S(_, _, _)
      S(t, cur, acc) ==
        IF t = <<>> THEN Append(acc, cur)
        ELSE IF Head(t) = "/" THEN S(Tail(t), <<>>, Append(acc, cur))
        ELSE S(Tail(t), Append(cur, Head(t)), acc)
  IN S(str, <<>>, <<>>)

\* segs.join("/")
Join(segs) ==
  LET RECURSIVE J(_)
      J(t) == IF t = <<>> THEN <<>>
              ELSE IF Len(t) = 1 THEN Head(t)
              ELSE Head(t) \o <<"/">> \o J(Tail(t))
  IN J(segs)

DotDot == <<".", ".">>

\* normalizeString of the path module: drops empty and "." segments and lets
\* ".." remove the segment before it; above the start, ".." is kept when
\* allowAboveRoot and dropped otherwise
NormalizeString(segs, allowAboveRoot) ==
  LET RECURSIVE N(_, _)
      N(t, acc) ==
        IF t = <<>> THEN acc
        ELSE IF Head(t) = <<>> \/ Head(t) = <<".">> THEN N(Tail(t), acc)
        ELSE IF Head(t) = DotDot
          THEN IF acc # <<>> /\ acc[Len(acc)] # DotDot
                 THEN N(Tail(t), SubSeq(acc, 1, Len(acc) - 1))
               ELSE IF allowAboveRoot THEN N(Tail(t), Append(acc, DotDot))
               ELSE N(Tail(t), acc)
        ELSE N(Tail(t), Append(acc, Head(t)))
  IN N(segs, <<>>)

\* path.isAbsolute
IsAbsolute(str) == str # <<>> /\ str[1] = "/"

\* path.normalize
Normalize(str) ==
  IF str = <<>> THEN <<".">>
  ELSE LET abs == IsAbsolute(str)
           trailing == str[Len(str)] = "/"
           body == Join(NormalizeString(Split(str), ~abs))
       IN IF body = <<>>
            THEN IF abs THEN <<"/">> ELSE IF trailing THEN <<".", "/">> ELSE <<".">>
            ELSE (IF abs THEN <<"/">> ELSE <<>>) \o body
                 \o (IF trailing THEN <<"/">> ELSE <<>>)

\* process.cwd()
Cwd == <<"/", "app">>

\* path.resolve of one path
Resolve(str) ==
  LET full == IF IsAbsolute(str) THEN str ELSE Cwd \o <<"/">> \o str
  IN <<"/">> \o Join(NormalizeString(Split(full), FALSE))

\* path.extname: from the last "." of the last segment, unless there is none,
\* it is the segment's first character, or the segment is ".."
Extname(str) ==
  LET segs == SelectSeq(Split(str), LAMBDA g : g # <<>>)
      base == IF segs = <<>> THEN <<>> ELSE segs[Len(segs)]
      dots == {i \in 1..Len(base) : base[i] = "."}
      lastDot == CHOOSE i \in dots : \A j \in dots : j <= i
  IN IF dots = {} THEN <<>>
     ELSE IF lastDot = 1 \/ base = DotDot THEN <<>>
     ELSE SubSeq(base, lastDot, Len(base))

\* a traversal test that looks at the start of the path only
TraversalPatternLeading(str) == StartsWith(str, DotDot)

\* DANGEROUS_PATTERNS, one test per regular expression
TraversalPattern(str) == Includes(str, DotDot)

SystemPathPattern(str) ==
  LET low == ToLowerCase(str)
  IN \/ Includes(low, <<"/", "etc", "/", "passwd">>)
     \/ Includes(low, <<"/", "etc", "/", "shadow">>)
     \/ Includes(low, <<"/", "proc", "/">>)
     \/ Includes(low, <<"/", "sys", "/">>)
     \/ Includes(low, <<"/", "dev", "/">>)
     \/ Includes(low, <<"/", "boot", "/">>)
     \/ Includes(low, <<"/", "root", "/">>)

\* /\\\\[a-z]+\$/i and /^[a-z]:\\/i
WindowsPattern(str) ==
  \/ \E i, j \in 1..Len(str) :
       /\ i + 2 < j
       /\ str[i] = "\\" /\ str[i + 1] = "\\"
       /\ \A k \in (i + 2)..(j - 1) : IsLetters(str[k])
       /\ str[j] = "$"
  \/ /\ Len(str) >= 3
     /\ IsLetters(str[1]) /\ Runs[str[1]] = 1
     /\ str[2] = ":" /\ str[3] = "\\"

\* /\0/ and /[\x00-\x1f\x7f-\x9f]/
ControlPattern(str) == \E i \in 1..Len(str) : str[i] \in ControlBytes

\* a scan that knows nothing of control bytes
DangerousWithoutControl(str) ==
  TraversalPattern(str) \/ SystemPathPattern(str) \/ WindowsPattern(str)

\* `for (const pattern of this.DANGEROUS_PATTERNS) if (pattern.test(inputPath))`
Dangerous(str) ==
  TraversalPattern(str) \/ SystemPathPattern(str) \/ WindowsPattern(str) \/ ControlPattern(str)

\* the default of options.blockedExtensions
DefaultBlockedExtensions ==
  {<<".", "exe">>, <<".", "bat">>, <<".", "cmd">>, <<".", "com">>, <<".", "scr">>, <<".", "pif">>}

\* a thrown Error: the rule that threw, its message, and what the message quotes
Rejection(rule, reason, detail) ==
  [ok |-> FALSE, path |-> <<>>, rule |-> rule, reason |-> reason, detail |-> detail]

\* a returned path
Accepted(p) == [ok |-> TRUE, path |-> p, rule |-> 0, reason |-> "", detail |-> <<>>]

\* absolutePath.startsWith(path.resolve(dir)) for some configured dir
InSomeDir(abs, dirs) == \E d \in dirs : StartsWith(abs, Resolve(d))

\* the extension checks made before the absolute-path check
ValidatePathOpExtensionFirst(input, opts, cfg) ==
  IF input.type # "string" \/ input.str = <<>>
    THEN Rejection(1, "Invalid path: must be a non-empty string", <<>>)
  ELSE IF Width(input.str) > opts.maxLength
    THEN Rejection(2, "Path too long", <<>>)
  ELSE IF Dangerous(input.str)
    THEN Rejection(3, "Path contains dangerous patterns", <<>>)
  ELSE LET normalizedPath == Normalize(input.str)
           ext == ToLowerCase(Extname(normalizedPath))
           absolutePath == Resolve(normalizedPath)
       IN IF Includes(normalizedPath, DotDot)
            THEN Rejection(5, "Path traversal detected after normalization", <<>>)
          ELSE IF ext # <<>> /\ ext \in opts.blockedExtensions
            THEN Rejection(7, "File extension not allowed", ext)
          ELSE IF ext # <<>> /\ opts.allowedExtensions.given
                  /\ ext \notin opts.allowedExtensions.list
            THEN Rejection(7, "File extension not in allowed list", ext)
          ELSE IF IsAbsolute(normalizedPath) /\ ~opts.allowAbsolute
            THEN Rejection(6, "Absolute paths not allowed", <<>>)
          ELSE IF ~InSomeDir(absolutePath, cfg.allowedDirectories)
            THEN Rejection(8, "Path not within allowed directories", <<>>)
          ELSE IF InSomeDir(absolutePath, cfg.blockedDirectories)
            THEN Rejection(8, "Path within blocked directory", <<>>)
          ELSE Accepted(absolutePath)

\* validatePath(inputPath, options) under securityConfig cfg
ValidatePathOp(input, opts, cfg) ==
  IF input.type # "string" \/ input.str = <<>>
    THEN Rejection(1, "Invalid path: must be a non-empty string", <<>>)
  ELSE IF Width(input.str) > opts.maxLength
    THEN Rejection(2, "Path too long", <<>>)
  ELSE IF Dangerous(input.str)
    THEN Rejection(3, "Path contains dangerous patterns", <<>>)
  ELSE LET normalizedPath == Normalize(input.str)
           ext == ToLowerCase(Extname(normalizedPath))
           absolutePath == Resolve(normalizedPath)
       IN IF Includes(normalizedPath, DotDot)
            THEN Rejection(5, "Path traversal detected after normalization", <<>>)
          ELSE IF IsAbsolute(normalizedPath) /\ ~opts.allowAbsolute
            THEN Rejection(6, "Absolute paths not allowed", <<>>)
          ELSE IF ext # <<>> /\ ext \in opts.blockedExtensions
            THEN Rejection(7, "File extension not allowed", ext)
          ELSE IF ext # <<>> /\ opts.allowedExtensions.given
                  /\ ext \notin opts.allowedExtensions.list
            THEN Rejection(7, "File extension not in allowed list", ext)
          ELSE IF ~InSomeDir(absolutePath, cfg.allowedDirectories)
            THEN Rejection(8, "Path not within allowed directories", <<>>)
          ELSE IF InSomeDir(absolutePath, cfg.blockedDirectories)
            THEN Rejection(8, "Path within blocked directory", <<>>)
          ELSE Accepted(absolutePath)

\* the segments paths are built from
PathSegments ==
  {<<"x">>, <<"src">>, <<"src", "2">>, <<"priv">>, <<"app">>,
   <<"notes", ".", "txt">>, <<"malware", ".", "exe">>, <<"MALWARE", ".", "EXE">>,
   <<".">>, <<".", ".">>, <<"x", ".", ".", "x">>, <<"x", "NUL">>,
   <<"etc">>, <<"ETC">>, <<"passwd">>, <<"dev">>,
   <<"c", ":", "\\", "x">>, <<"\\", "\\", "share", "$">>}

\* the strings callers pass: up to MaxSegments segments joined by "/", with or
\* without a leading and a trailing "/", and the empty string
PathStrings ==
  {<<>>} \cup
  { lead \o Join(segs) \o trail :
      lead \in {<<>>, <<"/">>}, trail \in {<<>>, <<"/">>},
      segs \in UNION {[1..n -> PathSegments] : n \in 1..MaxSegments} }

\* what arrives as inputPath: a string, or a value of another type
PathInputs ==
  {[type |-> "string", str |-> str] : str \in PathStrings}
    \cup {[type |-> "other", str |-> <<>>]}

\* the options callers pass; a missing allowedExtensions is `given = FALSE`
PathOptions ==
  [allowAbsolute : BOOLEAN,
   maxLength : {DefaultMaxLength, ShortMaxLength},
   allowedExtensions : {[given |-> FALSE, list |-> {}],
                        [given |-> TRUE, list |-> {<<".", "txt">>}]},
   blockedExtensions : {DefaultBlockedExtensions, {<<".", "EXE">>}}]

\* validatePath(inputPath) without options
DefaultPathOptions ==
  [allowAbsolute |-> FALSE, maxLength |-> DefaultMaxLength,
   allowedExtensions |-> [given |-> FALSE, list |-> {}],
   blockedExtensions |-> DefaultBlockedExtensions]

\* securityConfig.allowedDirectories / blockedDirectories as deployments set them
SecurityConfigs ==
  [allowedDirectories : {{<<".">>, <<".", "/", "src">>}, {<<".", "/", "src">>}},
   blockedDirectories : {{<<"/", "etc">>, <<"/", "dev">>},
                         {<<".", "/", "src", "/", "priv">>}}]

\* the configuration's defaults that matter here: "." and "./src" allowed,
\* "/etc" and "/dev" blocked
DefaultSecurityConfig ==
  [allowedDirectories |-> {<<".">>, <<".", "/", "src">>},
   blockedDirectories |-> {<<"/", "etc">>, <<"/", "dev">>}]

\* a caller about to call validatePath(input, opts) under configuration cfg
PathInitWith(cfg, input, opts) ==
  /\ securityConfig = cfg
  /\ pathCall = [op |-> "new", input |-> input, opts |-> opts,
                 ret |-> Rejection(0, "", <<>>)]

PathInit ==
  \E cfg \in SecurityConfigs, input \in PathInputs, opts \in PathOptions :
    PathInitWith(cfg, input, opts)

\* the call of SecurityValidator.validatePath
ValidatePath ==
  /\ pathCall.op = "new"
  /\ pathCall' = [pathCall EXCEPT
                    !.op = "validatePath",
                    !.ret = ValidatePathOp(pathCall.input, pathCall.opts, securityConfig)]
  /\ UNCHANGED <<securityConfig, cmdInput, cmdCall, execCall,
                 limVars, cacheVars, rateVars, secVars>>

PathNext == ValidatePath

(***************************************************************************)
(* SecurityValidator.validateCommand and SystemService.executeCommand      *)
(*                                                                         *)
(* Commands and arguments are strings of the same symbols as paths.  No    *)
(* two runs used here spell a listed command name across their boundary,   *)
(* so a listed name occurs in a string exactly when it occurs in one of    *)
(* its runs (NamesIn).                                                     *)
(***************************************************************************)
\* DANGEROUS_COMMANDS of SecurityValidator
DANGEROUS_COMMANDS ==
  {<<"rm">>, <<"rmdir">>, <<"del">>, <<"format">>, <<"fdisk">>,
   <<"mkfs">>, <<"dd">>, <<"shutdown">>, <<"reboot">>, <<"halt">>,
   <<"poweroff">>, <<"init">>, <<"kill">>, <<"killall">>,
   <<"sudo">>, <<"su">>, <<"passwd">>, <<"chown">>, <<"chmod">>,
   <<"mount">>, <<"umount">>, <<"crontab">>, <<"at">>,
   <<"nc">>, <<"netcat">>, <<"telnet">>, <<"ssh">>, <<"scp">>,
   <<"wget">>, <<"curl">>, <<"ftp">>, <<"tftp">>}

\* what \s matches among the symbols
Whitespace == {" ", "TAB"}

\* the symbol of the backquote character
Backquote == "BQ"

\* a thrown Error of validateCommand: its message and what the message quotes
CommandRejection(reason, detail) == [ok |-> FALSE, reason |-> reason, detail |-> detail]

\* validateCommand returned
CommandAccepted == [ok |-> TRUE, reason |-> "", detail |-> <<>>]

\* String(arg): a string as it is, a number as its digits
ArgString(arg) == IF arg.type = "string" THEN arg.str ELSE <<"2">>

\* args.join(' ')
JoinArgs(args) ==
  LET RECURSIVE J(_)
      J(t) == IF t = <<>> THEN <<>>
              ELSE IF Len(t) = 1 THEN ArgString(Head(t))
              ELSE ArgString(Head(t)) \o <<" ">> \o J(Tail(t))
  IN J(args)

\* the template string of command, a space and args.join(' ')
FullCommand(str, args) == str \o <<" ">> \o JoinArgs(args)

\* command.split(' ')[0] without the change of case
BaseCommandCaseSensitive(str) ==
  LET RECURSIVE F(_)
      F(t) == IF t = <<>> \/ Head(t) = " " THEN <<>> ELSE <<Head(t)>> \o F(Tail(t))
  IN F(str)

\* command.split(' ')[0].toLowerCase()
BaseCommand(str) ==
  LET RECURSIVE F(_)
      F(t) == IF t = <<>> \/ Head(t) = " " THEN <<>> ELSE <<Head(t)>> \o F(Tail(t))
  IN ToLowerCase(F(str))

\* str, from position i on, is \s* followed by the symbol y
SpacesThen(str, i, y) ==
  \E j \in i..Len(str) :
    /\ str[j] = y
    /\ \A k \in i..(j - 1) : str[k] \in Whitespace

\* shellPatterns, one test per regular expression
\* the character class of ; & | backquote $ ( ) { } [ ]
MetaCharPattern(str) ==
  \E i \in 1..Len(str) :
    str[i] \in {";", "&", "|", Backquote, "$", "(", ")", "{", "}", "[", "]"}

\* /\$\(/
SubstitutionPattern(str) == Includes(str, <<"$", "(">>)

\* a backquote, anything but backquotes, a backquote
BacktickPattern(str) == \E i, j \in 1..Len(str) : i < j /\ str[i] = Backquote /\ str[j] = Backquote

\* /\|\s*\w+/
PipePattern(str) ==
  \E i \in 1..Len(str) :
    /\ str[i] = "|"
    /\ \E j \in (i + 1)..Len(str) :
         /\ IsRun(str[j])
         /\ \A k \in (i + 1)..(j - 1) : str[k] \in Whitespace

\* /&&|\|\|/
LogicalPattern(str) == Includes(str, <<"&", "&">>) \/ Includes(str, <<"|", "|">>)

\* />\s*\/|<\s*\//
RedirectionPattern(str) ==
  \E i \in 1..Len(str) : str[i] \in {">", "<"} /\ SpacesThen(str, i + 1, "/")

\* `for (const pattern of shellPatterns) if (pattern.test(fullCommand))`
ShellPattern(str) ==
  \/ MetaCharPattern(str)
  \/ SubstitutionPattern(str)
  \/ BacktickPattern(str)
  \/ PipePattern(str)
  \/ LogicalPattern(str)
  \/ RedirectionPattern(str)

\* `for (const arg of args)`: the first argument that is no string or is too
\* long throws
ValidateArgs(args) ==
  LET RECURSIVE A(_)
      A(t) == IF t = <<>> THEN CommandAccepted
              ELSE IF Head(t).type # "string"
                THEN CommandRejection("All command arguments must be strings", <<>>)
              ELSE IF Width(Head(t).str) > MaxArgumentLength
                THEN CommandRejection("Command argument too long", <<>>)
              ELSE A(Tail(t))
  IN A(args)

\* SecurityValidator.validateCommand(command, args)
ValidateCommandOp(command, args) ==
  IF command.type # "string" \/ command.str = <<>>
    THEN CommandRejection("Invalid command: must be a non-empty string", <<>>)
  ELSE IF BaseCommand(command.str) \in DANGEROUS_COMMANDS
    THEN CommandRejection("Dangerous command not allowed", BaseCommand(command.str))
  ELSE IF ShellPattern(FullCommand(command.str, args))
    THEN CommandRejection("Command contains potentially dangerous patterns", <<>>)
  ELSE ValidateArgs(args)

\* dangerousCommands of SystemService.executeCommand
ExecDangerousCommands == {"rm", "del", "format", "fdisk", "mkfs", "dd"}

\* the names of ExecDangerousCommands spelled inside a lower-case run
NamesIn(y) ==
  CASE y \in {"rm", "alarm"} -> {"rm"}
    [] OTHER -> {}

\* a security check that wants the whole command to be a listed name
IsDangerousCommandExact(str) ==
  Len(str) = 1 /\ LowerSym(str[1]) \in ExecDangerousCommands

\* dangerousCommands.some(cmd => command.toLowerCase().includes(cmd))
IsDangerousCommand(str) ==
  \E i \in 1..Len(str) : NamesIn(ToLowerCase(str)[i]) # {}

\* an exit code: a number, or the name child_process gives a spawn failure
ExitCode(n) == [number |-> {n}, name |-> {}]

\* what executeCommand answers: nothing yet, or a result value
NoCommandResult == [given |-> FALSE, exitCode |-> ExitCode(0), stderr |-> "", detail |-> <<>>]

CommandResult(exitCode, stderr, detail) ==
  [given |-> TRUE, exitCode |-> exitCode, stderr |-> stderr, detail |-> detail]

\* how the child process ends: exit code 0, the non-zero exit code 2, or
\* killed at the timeout (error.code is null)
ExecOutcomes == {"ok", "exit", "killed"}

\* the result executeCommand builds from the end of the child process: the
\* try block's return, or the catch block's `error.code || 1` and
\* `error.stderr?.toString() || error.message`
ExecResult(o) ==
  CASE o = "ok" -> CommandResult(ExitCode(0), "", <<>>)
    [] o = "exit" -> CommandResult(ExitCode(2), "stderr of the process", <<>>)
    [] o = "killed" -> CommandResult(ExitCode(1), "Command failed", <<>>)

\* shell ? command : the template string of command, a space and args.join(' ')
ExecFullCommand(str, args, shell) == IF shell THEN str ELSE FullCommand(str, args)

\* the commands and the arguments callers pass
CommandSymbols ==
  {"rm", "RM", "alarm", "ls", " ", "TAB", "-", "/", ";", "|", "&", "$", "(", Backquote, ">", "<"}

CommandStrings == UNION {[1..n -> CommandSymbols] : n \in 0..MaxCommandLen}

CommandInputs ==
  {[type |-> "string", str |-> str] : str \in CommandStrings}
    \cup {[type |-> "other", str |-> <<>>]}

ArgInputs ==
  {[type |-> "string", str |-> str] :
     str \in {<<"-", "rf">>, <<"/">>, <<">">>, <<";">>, <<"rm">>, <<"long">>}}
    \cup {[type |-> "number", str |-> <<>>]}

ArgLists == UNION {[1..n -> ArgInputs] : n \in 0..MaxArgs}

\* nothing handed to child_process.exec
NotExecuted == [called |-> FALSE, fullCommand |-> <<>>]

\* a caller about to pass (command, args) to validateCommand and to
\* executeCommand
CommandInitWith(command, args) ==
  /\ cmdInput = [command |-> command, args |-> args]
  /\ cmdCall = [op |-> "new", ret |-> CommandRejection("", <<>>)]
  /\ execCall = [op |-> "new", exec |-> NotExecuted, ret |-> NoCommandResult]

CommandInit ==
  \E command \in CommandInputs, args \in ArgLists : CommandInitWith(command, args)

\* the call of SecurityValidator.validateCommand
ValidateCommand ==
  /\ cmdCall.op = "new"
  /\ cmdCall' = [op |-> "validateCommand",
                 ret |-> ValidateCommandOp(cmdInput.command, cmdInput.args)]
  /\ UNCHANGED <<cmdInput, execCall, securityConfig, pathCall,
                 limVars, cacheVars, rateVars, secVars>>

\* the call of SystemService.executeCommand, up to its first await: a value
\* that is no string has no toLowerCase (a TypeError the catch block turns
\* into a result), a dangerous command's Error is turned into a result the
\* same way, any other command is handed to child_process.exec
ExecuteCommand(shell) ==
  /\ execCall.op = "new"
  /\ execCall' =
       IF cmdInput.command.type # "string"
         THEN [op |-> "returned", exec |-> NotExecuted,
               ret |-> CommandResult(ExitCode(1), "command.toLowerCase is not a function", <<>>)]
       ELSE IF IsDangerousCommand(cmdInput.command.str)
         THEN [op |-> "returned", exec |-> NotExecuted,
               ret |-> CommandResult(ExitCode(1), "Dangerous command not allowed",
                                    cmdInput.command.str)]
       ELSE [op |-> "running",
             exec |-> [called |-> TRUE,
                       fullCommand |-> ExecFullCommand(cmdInput.command.str,
                                                       cmdInput.args, shell)],
             ret |-> NoCommandResult]
  /\ UNCHANGED <<cmdInput, cmdCall, securityConfig, pathCall,
                 limVars, cacheVars, rateVars, secVars>>

\* the child process ends and executeCommand returns its result
ExecSettles(o) ==
  /\ execCall.op = "running"
  /\ execCall' = [execCall EXCEPT !.op = "returned", !.ret = ExecResult(o)]
  /\ UNCHANGED <<cmdInput, cmdCall, securityConfig, pathCall,
                 limVars, cacheVars, rateVars, secVars>>

CommandNext ==
  \/ ValidateCommand
  \/ \E shell \in BOOLEAN : ExecuteCommand(shell)
  \/ \E o \in ExecOutcomes : ExecSettles(o)

(***************************************************************************)
(* SecurityMiddleware.createSecureFunction                                 *)
(***************************************************************************)
\* how the caller-supplied fn behaves when invoked: it returns a promise that
\* is still pending, or it throws before returning one
FnKinds == {"async", "throws"}

\* options.name of the secure function: the identifier it is limited under
SecureName == "u1"

\* maxExecutionTime
MaxExecutionTime == MaxExecutionTicks * MsPerTick

\* no call made yet
NoSecureCall ==
  [state |-> "idle", id |-> "", valid |-> TRUE, steps |-> <<>>, results |-> <<>>,
   op |-> "none", timer |-> "none", raced |-> FALSE, unhandled |-> 0,
   startedAt |-> 0, settledAt |-> 0]

SecureInit == secure = NoSecureCall

EdgeInit ==
  /\ SecureInit
  /\ PathInitWith(DefaultSecurityConfig, [type |-> "string", str |-> <<"x">>],
                  DefaultPathOptions)
  /\ CommandInitWith([type |-> "string", str |-> <<"ls">>], <<>>)

\* nothing of the previous call is still outstanding
Quiescent == secure.state # "pending" /\ secure.op # "pending" /\ secure.timer # "armed"

\* a call of the function createSecureFunction(fn, {name: id}) returned, up to
\* its first suspension point.  `valid` tells whether the arguments would pass
\* SecurityValidator; `kind` is how fn behaves.  withSecurity consults the
\* limiter under `rateLimitId || name`, sanitizes the arguments, and calls the
\* inner function, which arms the timer, calls fn and races the two.
SecureCall(id, valid, kind) ==
  LET ret == CheckLimitOp(store, id, clock).ret
      w == WithSecurityOp(TRUE, ret, "success")
      begun == [NoSecureCall EXCEPT !.id = id, !.valid = valid, !.startedAt = clock,
                                    !.settledAt = clock]
  IN /\ Quiescent
     /\ ThroughCheckLimit(id)
     /\ call' = Called("withSecurity", id, TRUE, Before(id), ret, w.invoked, w.error)
     /\ secure' =
          IF ~w.invoked
            THEN [begun EXCEPT !.state = "settled", !.steps = <<"rateLimit">>,
                               !.results = <<"RateLimitError">>]
          ELSE IF kind = "throws"
            THEN [begun EXCEPT !.state = "settled",
                               !.steps = <<"rateLimit", "sanitize", "timer", "operation">>,
                               !.results = <<"failure">>,
                               !.op = "threw", !.timer = "armed", !.raced = FALSE]
          ELSE [begun EXCEPT !.state = "pending",
                             !.steps = <<"rateLimit", "sanitize", "timer", "operation">>,
                             !.op = "pending", !.timer = "armed", !.raced = TRUE]
     /\ UNCHANGED <<rateEnabled, clock, limVars, cacheVars, inputVars>>

\* the promise fn returned settles; Promise.race passes the first settlement
\* on and ignores a later one
OpSettles(o) ==
  /\ secure.op = "pending"
  /\ secure' =
       IF secure.state = "pending"
         THEN [secure EXCEPT !.op = o, !.state = "settled", !.settledAt = clock,
                             !.results = Append(@, o)]
         ELSE [secure EXCEPT !.op = o]
  /\ UNCHANGED <<limVars, cacheVars, rateVars, inputVars>>

\* the setTimeout callback rejects timeoutPromise.  Promise.race, when it was
\* reached, has put a handler on that promise; otherwise nothing has
TimerFires ==
  /\ secure.timer = "armed"
  /\ clock = secure.startedAt + MaxExecutionTime
  /\ secure' =
       IF ~secure.raced
         THEN [secure EXCEPT !.timer = "fired", !.unhandled = @ + 1]
       ELSE IF secure.state = "pending"
         THEN [secure EXCEPT !.timer = "fired", !.state = "settled", !.settledAt = clock,
                             !.results = Append(@, "timeout")]
       ELSE [secure EXCEPT !.timer = "fired"]
  /\ UNCHANGED <<limVars, cacheVars, rateVars, inputVars>>

\* time passes; a timer that is due fires before the clock moves on
SecureTick ==
  /\ ~(secure.timer = "armed" /\ clock >= secure.startedAt + MaxExecutionTime)
  /\ clock < MaxRateTicks * MsPerTick
  /\ clock' = clock + MsPerTick
  /\ unsweptRet' = NoResult
  /\ call' = Called("tick", "", FALSE, {}, NoResult, FALSE, NoError)
  /\ UNCHANGED <<store, rateEnabled, window, unswept, limVars, cacheVars, edgeVars>>

\* another caller of the limiter uses up quota
OtherCaller(id) ==
  /\ ThroughCheckLimit(id)
  /\ call' = Called("checkLimit", id, TRUE, Before(id), CheckLimitOp(store, id, clock).ret, FALSE, NoError)
  /\ UNCHANGED <<rateEnabled, clock, limVars, cacheVars, edgeVars>>

SecureNext ==
  \/ \E valid \in BOOLEAN, kind \in FnKinds : SecureCall(SecureName, valid, kind)
  \/ \E o \in OpOutcomes : OpSettles(o)
  \/ TimerFires
  \/ SecureTick
  \/ OtherCaller(SecureName)

SecureSpecInit == RateInit /\ LimInit /\ CacheInitWith(TRUE, 1) /\ EdgeInit

SpecSecure == SecureSpecInit /\ [][SecureNext]_vars

PathSpecInit ==
  /\ PathInit
  /\ CommandInitWith([type |-> "string", str |-> <<"ls">>], <<>>)
  /\ LimInit /\ CacheInitWith(TRUE, 1) /\ RateInitWith(FALSE) /\ SecureInit

SpecPath == PathSpecInit /\ [][PathNext]_vars

\* one command and its arguments, passed to both entry points
CommandSpecInit ==
  /\ CommandInit
  /\ PathInitWith(DefaultSecurityConfig, [type |-> "string", str |-> <<"x">>],
                  DefaultPathOptions)
  /\ LimInit /\ CacheInitWith(TRUE, 1) /\ RateInitWith(FALSE) /\ SecureInit

SpecCommand == CommandSpecInit /\ [][CommandNext]_vars

RateNext ==
  \/ \E id \in Ids : CheckLimit(id)
  \/ \E id \in Ids : GetStatus(id)
  \/ \E id \in Ids : Reset(id)
  \/ RateCleanup
  \/ RateTick
  \/ \E id \in Ids, o \in OpOutcomes : WithRateLimit(id, o)
  \/ \E id \in Ids, o \in OpOutcomes : CreateRateLimitedFunction(id, o)
  \/ \E id \in RateLimitIdInputs, o \in OpOutcomes : WithSecurity(id, o)

RateSpecInit == RateInit /\ LimInit /\ CacheInitWith(TRUE, 1) /\ EdgeInit

SpecRate == RateSpecInit /\ [][RateNext]_vars

CacheSpecInit == CacheInit /\ LimInit /\ RateInitWith(FALSE) /\ EdgeInit

SpecCache == CacheSpecInit /\ [][CacheNext]_vars

LimSpecInit == LimInit /\ CacheInitWith(TRUE, 1) /\ RateInitWith(FALSE) /\ EdgeInit

SpecLimiter == LimSpecInit /\ [][LimNext]_vars

\* the limiter under the event loop's scheduling: a queued continuation is
\* always run in the end (the microtask queue drains), and every started
\* operation settles in the end
SpecLimiterFair ==
  /\ LimSpecInit
  /\ [][LimNext]_vars
  /\ WF_vars(\E p \in Calls : Resume(p))
  /\ WF_vars(\E p \in Calls : Finish(p))
  /\ WF_vars(\E p \in Calls, o \in Outcomes : Settle(p, o))

(***************************************************************************)
(* Claims about the concurrency limiter                                    *)
(***************************************************************************)
\* calls of category c that have requested admission and not yet finished
InProgress(c) ==
  {p \in Calls : cat[p] = c /\ pc[p] \in {"waiting", "woken", "running", "settled"}}

\* calls of category c whose operation is in flight
InFlight(c) == {p \in Calls : cat[p] = c /\ pc[p] \in {"running", "settled"}}

\* C1: in every reachable state, for every category, current <= maxConcurrent
\* (never more than maxConcurrent guarded operations in flight).
C1_CurrentWithinMax ==
  \A c \in Categories :
    concurrencyLimiters[c].current <= concurrencyLimiters[c].maxConcurrent

\* C2: operations of one category start in the order their callers requested
\* admission: a waiter is woken only if it is the longest-waiting one, and a call
\* never starts its operation while an earlier caller of its category is still
\* waiting for its slot.
C2_StartInArrivalOrder ==
  [][\A p \in Calls :
       /\ (pc[p] = "waiting" /\ pc'[p] = "woken") =>
            \A q \in Calls : (pc[q] = "waiting" /\ cat[q] = cat[p]) => p <= q
       /\ (p \notin invoked /\ p \in invoked') =>
            \A q \in Calls :
              ~(q < p /\ cat[q] = cat'[p] /\ pc[q] \in {"waiting", "woken"})]_limVars

\* C3: a call that incremented current decrements it exactly once when its
\* operation has completed, whatever the outcome, and hands that outcome to its
\* caller; current counts exactly the operations in flight, so a category with no
\* call in progress has current = 0 and an empty queue.
C3_ReleasedExactlyOnce ==
  /\ \A p \in Calls :
        /\ releases[p] = (IF pc[p] = "done" /\ p \in invoked THEN 1 ELSE 0)
        /\ (pc[p] = "done" /\ p \in invoked) => result[p] = opOutcome[p]
  /\ \A c \in Categories :
        /\ concurrencyLimiters[c].current = Cardinality(InFlight(c))
        /\ InProgress(c) = {} =>
             concurrencyLimiters[c].current = 0 /\ concurrencyLimiters[c].queue = <<>>

\* C3 witness: a category whose calls have all finished, a failed and a timed-out
\* operation among them, each having released its slot once.
C3_Witness ==
  \E p, q \in Calls :
    /\ p < q /\ cat[p] = "searches" /\ cat[q] = "searches"
    /\ pc[p] = "done" /\ pc[q] = "done"
    /\ opOutcome[p] = "failure" /\ opOutcome[q] = "timeout"
    /\ releases[p] = 1 /\ releases[q] = 1
    /\ InProgress("searches") = {}
    /\ concurrencyLimiters["searches"].current = 0

\* C4: a call with a category the constructor did not register fails at once with
\* the configuration error: its operation is not invoked, it is not queued, and
\* no limiter changes.
C4_UnknownCategoryRejected ==
  [][\A p \in Calls :
       (pc[p] = "idle" /\ pc'[p] # "idle" /\ cat'[p] \notin Categories) =>
         /\ pc'[p] = "done"
         /\ result'[p] = "UnknownCategoryError"
         /\ p \notin invoked'
         /\ concurrencyLimiters' = concurrencyLimiters
         /\ micro' = micro]_limVars

\* C4 witness: an unknown-category call was rejected while a configured category
\* was saturated with a caller queued.
C4_Witness ==
  \E p \in Calls :
    /\ cat[p] = "uploads" /\ pc[p] = "done" /\ result[p] = "UnknownCategoryError"
    /\ p \notin invoked
    /\ concurrencyLimiters["commands"].current = 1
    /\ Len(concurrencyLimiters["commands"].queue) = 1

(***************************************************************************)
(* Claims about the LRU cache                                              *)
(***************************************************************************)
\* C5: after every completed cache operation the number of stored entries is at
\* most maxSize.
C5_SizeWithinMax == Len(cache) <= maxSize

\* C5 witness: a full cache of two entries right after a set that evicted.
C5_Witness ==
  /\ enabled /\ ~hung /\ maxSize = 2 /\ Len(cache) = 2
  /\ last.op = "set" /\ ~last.had /\ stats.evictions >= 1

\* C6: a completed set of a new key on a cache holding maxSize entries evicts
\* exactly one entry, the one whose last successful get or set is the oldest,
\* and leaves every other entry stored as it was.
C6_EvictsLeastRecentlyUsed ==
  [][(last'.op = "set" /\ enabled /\ ~hung' /\ last'.key \notin KeysOf(cache)
        /\ Len(cache) = maxSize) =>
       LET victim == Head(recency) IN
       /\ victim \in KeysOf(cache)
       /\ KeysOf(cache') = (KeysOf(cache) \ {victim}) \cup {last'.key}
       /\ Len(cache') = maxSize
       /\ stats'.evictions = stats.evictions + 1
       /\ \A j \in KeysOf(cache) \ {victim} : EntryOf(cache', j) = EntryOf(cache, j)]_vars

\* C6 witness: set of a new key evicted from a full cache of two whose surviving
\* entry had been read by a get.
C6_Witness ==
  /\ enabled /\ ~hung /\ maxSize = 2 /\ Len(cache) = 2
  /\ last.op = "set" /\ ~last.had /\ cache[2].key = last.key
  /\ stats.evictions = 1 /\ stats.hits = 1 /\ cache[1].accessCount = 2

\* C7: get returns a value only while now - timestamp <= ttl, reports a miss and
\* removes the entry once now - timestamp > ttl, and an entry's timestamp is the
\* time of the last set of its key: set writes it, nothing else creates an entry
\* or changes its timestamp (a get hit does not).
C7_TtlFromLastSet ==
  [][LET k == last'.key IN
     /\ (last'.op = "get" /\ last'.ret # Miss) =>
          /\ k \in KeysOf(cache)
          /\ now - EntryOf(cache, k).timestamp <= CacheTtl
          /\ last'.ret = EntryOf(cache, k).value
     /\ (last'.op = "get" /\ enabled /\ k \in KeysOf(cache)
           /\ now - EntryOf(cache, k).timestamp > CacheTtl) =>
          (last'.ret = Miss /\ k \notin KeysOf(cache'))
     /\ (last'.op = "set" /\ enabled /\ ~hung') =>
          (k \in KeysOf(cache') /\ EntryOf(cache', k).timestamp = now)
     /\ \A j \in KeysOf(cache') :
          (j \notin KeysOf(cache)
             \/ EntryOf(cache', j).timestamp # EntryOf(cache, j).timestamp) =>
            (last'.op = "set" /\ k = j)]_vars

\* C7 witness: a get found its entry expired, after earlier get hits.
C7_Witness ==
  /\ enabled /\ last.op = "get" /\ last.had /\ last.ret = Miss
  /\ last.key \notin KeysOf(cache) /\ stats.hits = 2

\* C8: set on a stored key replaces its value, resets its timestamp, makes it the
\* last (most recently used) entry and removes no other entry, also when the
\* cache is full: the entry count and the eviction counter do not change.
C8_SetStoredKeyReplaces ==
  [][(last'.op = "set" /\ enabled /\ last'.key \in KeysOf(cache)) =>
       LET k == last'.key
           n == Len(cache')
       IN /\ ~hung'
          /\ n = Len(cache)
          /\ cache'[n].key = k
          /\ cache'[n].value = last'.value
          /\ cache'[n].timestamp = now
          /\ SubSeq(cache', 1, n - 1) = MapDelete(cache, k)
          /\ recency'[n] = k
          /\ stats' = stats]_vars

\* C8 witness: a stored key was set again on a full cache of two and nothing was
\* evicted.
C8_Witness ==
  /\ enabled /\ ~hung /\ maxSize = 2 /\ Len(cache) = 2
  /\ last.op = "set" /\ last.had /\ last.value = "v2"
  /\ cache[2].key = last.key /\ cache[2].value = "v2"
  /\ cache[1].timestamp < cache[2].timestamp
  /\ stats.evictions = 0

\* C9: with the cache enabled, right after a completed set(k, v) a get(k) returns
\* v and has(k) is true.
C9_ReadYourWrite ==
  (last.op = "set" /\ enabled /\ ~hung) =>
    /\ GetOp(last.key).ret = last.value
    /\ HasOp(last.key).ret

\* C9 witness: the set made room by evicting, and its own entry is the one read.
C9_Witness ==
  /\ enabled /\ ~hung /\ last.op = "set" /\ ~last.had
  /\ Len(cache) = maxSize /\ stats.evictions >= 1
  /\ GetOp(last.key).ret = last.value

\* C10: with the cache disabled nothing is ever stored or counted: get reports a
\* miss, has and delete return false, the map stays empty and the counters 0.
C10_DisabledIsInert ==
  ~enabled =>
    /\ cache = <<>>
    /\ stats = [hits |-> 0, misses |-> 0, evictions |-> 0]
    /\ ~hung
    /\ last.op = "get" => last.ret = Miss
    /\ last.op \in {"has", "delete"} => last.ret = "false"

\* C10 witness: a set on the disabled cache, later in time, stored nothing.
C10_Witness ==
  /\ ~enabled /\ last.op = "set" /\ last.key = "a" /\ now = 2 /\ cache = <<>>

\* C11: a sweep of the cache removes every entry whose age now - timestamp is
\* greater than the TTL and no other entry; the entries that survive are stored
\* unaltered and keep their relative order in the Map and their relative
\* recency, and the hits, misses and evictions counters are unchanged.
C11_SweepRemovesExpiredOnly ==
  [][last'.op = "cleanup" =>
       /\ \A i \in 1..Len(cache) :
            now - cache[i].timestamp > CacheTtl => cache[i].key \notin KeysOf(cache')
       /\ \A i \in 1..Len(cache) :
            now - cache[i].timestamp <= CacheTtl =>
              \E j \in 1..Len(cache') : cache'[j] = cache[i]
       /\ \A j \in 1..Len(cache') : \E i \in 1..Len(cache) : cache[i] = cache'[j]
       /\ \A i1, i2 \in 1..Len(cache), j1, j2 \in 1..Len(cache') :
            (cache[i1] = cache'[j1] /\ cache[i2] = cache'[j2] /\ i1 < i2) => j1 < j2
       /\ recency' = SelectSeq(recency, LAMBDA k : k \in KeysOf(cache'))
       /\ stats' = stats
  ]_vars

\* C11 witness: a sweep removed an expired entry and left another one stored,
\* after the counters had moved.
C11_Witness ==
  /\ last.op = "cleanup" /\ last.had
  /\ cache # <<>>
  /\ stats.misses > 0

(***************************************************************************)
(* Claims about the rate limiter                                           *)
(***************************************************************************)
\* C12: with rate limiting enabled, the k-th checkLimit call of an identifier
\* inside one window is allowed exactly when k <= maxRequests; an allowed call
\* reports remaining = maxRequests - k and a rejected one remaining = 0,
\* whatever other identifiers do in between.
C12_KthCallAllowedIffWithinMax ==
  [][(rateEnabled /\ call'.checked) =>
       LET k == window'[call'.id].calls
           r == call'.ret
       IN /\ r.allowed <=> k <= MaxRequests
          /\ r.allowed => r.remaining = MaxRequests - k
          /\ ~r.allowed => r.remaining = 0
  ]_vars

\* C12 witness: the call after the last allowed one of a window was rejected
\* while another identifier had a window of its own under way.
C12_Witness ==
  /\ rateEnabled /\ call.checked /\ ~call.ret.allowed
  /\ window[call.id].calls = MaxRequests + 1
  /\ \E other \in Ids \ {call.id} : window[other].open /\ window[other].calls >= 1

\* C13: every stored rate window has count <= maxRequests, in every reachable
\* state.
C13_CountWithinMax ==
  \A id \in DOMAIN store : store[id].count <= MaxRequests

\* C13 witness: a full window is stored, a request against it has just been
\* rejected, and the other identifier's window was swept or reset before.
C13_Witness ==
  /\ call.op = "checkLimit" /\ ~call.ret.allowed
  /\ store[call.id].count = MaxRequests
  /\ DOMAIN store # DOMAIN unswept

\* C14: a rejected checkLimit leaves the stored count and resetTime of the
\* identifier (and the rest of the store) as they were, returns that resetTime,
\* and returns as retryAfter the time left to it in seconds rounded up, which
\* is at least 1.
C14_RejectionLeavesWindow ==
  [][(call'.checked /\ ~call'.ret.allowed) =>
       LET id == call'.id
           r == call'.ret
       IN /\ id \in DOMAIN store
          /\ store' = store
          /\ r.resetTime = store[id].resetTime
          /\ \E n \in 1..(WindowMs + MsPerSecond) :
               /\ r.retryAfter = {n}
               /\ n * MsPerSecond >= store[id].resetTime - clock
               /\ (n - 1) * MsPerSecond < store[id].resetTime - clock
  ]_vars

\* C14 witness: a rejection when less than a whole second was left of the window.
C14_Witness ==
  /\ call.checked /\ ~call.ret.allowed
  /\ call.id \in DOMAIN store
  /\ store[call.id].resetTime - clock < MsPerSecond
  /\ call.ret.retryAfter = {1}

\* C15 as stated: whenever checkLimit(id) runs while id has no stored window or
\* at a time now >= resetTime of its stored window, it returns allowed with
\* remaining = maxRequests - 1 and stores {count: 1, resetTime: now + windowMs}.
C15_FreshWindowAlways ==
  [][(call'.checked /\ (call'.id \notin DOMAIN store \/ clock >= store[call'.id].resetTime)) =>
       /\ call'.ret.allowed
       /\ call'.ret.remaining = MaxRequests - 1
       /\ call'.id \in DOMAIN store'
       /\ store'[call'.id].count = 1
       /\ store'[call'.id].resetTime = clock + WindowMs
  ]_vars

\* C15: with rate limiting enabled, whenever checkLimit(id) runs while id has no
\* stored window or at a time now >= resetTime of its stored window (now =
\* resetTime included), it returns allowed with remaining = maxRequests - 1 and
\* stores {count: 1, resetTime: now + windowMs}, whatever the previous window
\* held.
C15_FreshWindowWhenEnabled ==
  [][(rateEnabled /\ call'.checked
       /\ (call'.id \notin DOMAIN store \/ clock >= store[call'.id].resetTime)) =>
       /\ call'.ret.allowed
       /\ call'.ret.remaining = MaxRequests - 1
       /\ call'.id \in DOMAIN store'
       /\ store'[call'.id].count = 1
       /\ store'[call'.id].resetTime = clock + WindowMs
  ]_vars

\* C15 witness: checkLimit at the very instant a full window ended started a
\* window of one request.
C15_Witness ==
  /\ rateEnabled /\ call.checked
  /\ \E e \in call.before : e.count = MaxRequests /\ e.resetTime = clock
  /\ call.ret.allowed /\ call.ret.remaining = MaxRequests - 1
  /\ store[call.id] = RateLimitEntry(1, clock + WindowMs, clock)

\* C16: getStatus leaves the whole store as it was: the stored identifiers and
\* every one's count and resetTime, also when the window asked about is over.
C16_GetStatusIsPureRead ==
  [][call'.op = "getStatus" => store' = store]_vars

\* C16 witness: getStatus found an expired window and reported a fresh one,
\* and the expired window is still stored.
C16_Witness ==
  /\ call.op = "getStatus"
  /\ \E e \in call.before : clock >= e.resetTime /\ store[call.id] = e
  /\ call.ret.remaining = MaxRequests

\* C17: with rate limiting disabled the store stays empty, and every
\* checkLimit and getStatus returns allowed with remaining = maxRequests and
\* no retryAfter.
C17_DisabledAllowsAll ==
  ~rateEnabled =>
    /\ DOMAIN store = {}
    /\ call.op \in {"checkLimit", "getStatus"} =>
         /\ call.ret.allowed
         /\ call.ret.remaining = MaxRequests
         /\ call.ret.retryAfter = {}

\* C17 witness: on the disabled limiter, a checkLimit beyond maxRequests calls
\* of one identifier inside one window length.
C17_Witness ==
  /\ ~rateEnabled /\ call.op = "checkLimit"
  /\ window[call.id].calls = MaxRequests + 2
  /\ call.ret.allowed

\* C18: a sweep removes exactly the identifiers whose window is over (now >=
\* resetTime) and leaves every other stored window as it was; and every
\* checkLimit and getStatus returns what it would have returned had no sweep
\* ever run.
C18_SweepUnobservable ==
  [][/\ call'.op = "cleanup" =>
          /\ DOMAIN store' = {id \in DOMAIN store : clock < store[id].resetTime}
          /\ \A id \in DOMAIN store' : store'[id] = store[id]
     /\ (call'.checked \/ call'.op = "getStatus") => call'.ret = unsweptRet'
  ]_vars

\* C18 witness: getStatus asked about an identifier whose expired window a
\* sweep had removed, while the store without sweeps still holds that window.
C18_Witness ==
  /\ call.op = "getStatus"
  /\ call.id \notin DOMAIN store
  /\ call.id \in DOMAIN unswept
  /\ DOMAIN store # {}
  /\ call.ret = unsweptRet

(***************************************************************************)
(* Claims about the rate-limiting wrappers                                 *)
(***************************************************************************)
Wrappers == {"withRateLimit", "createRateLimitedFunction", "withSecurity"}

\* C19: when the checkLimit made by a wrapper returns allowed = false, the
\* wrapped operation is not invoked and the caller gets an error in the same
\* step, while the window that caused the rejection is still running.
C19_RejectedNeverInvoked ==
  [][(call'.op \in Wrappers /\ call'.checked /\ ~call'.ret.allowed) =>
       /\ ~call'.invoked
       /\ call'.error.thrown
       /\ call'.error.message = "Rate limit exceeded"
       /\ clock' = clock
       /\ clock < store'[call'.id].resetTime
  ]_vars

\* C19 witness: withSecurity turned a call down without invoking its operation.
C19_Witness ==
  /\ call.op = "withSecurity" /\ call.checked /\ ~call.ret.allowed
  /\ ~call.invoked /\ call.error.thrown

\* C20: every rejection a wrapper raises for the rate limit has code
\* RATE_LIMIT_EXCEEDED and a retryAfter field equal to the retryAfter that
\* checkLimit returned.
C20_RejectionCarriesRetryAfter ==
  (call.op \in Wrappers /\ call.checked /\ ~call.ret.allowed) =>
    /\ call.error.code = "RATE_LIMIT_EXCEEDED"
    /\ call.error.retryAfter # {}
    /\ call.error.retryAfter = call.ret.retryAfter

(***************************************************************************)
(* Liveness of the concurrency limiter                                     *)
(***************************************************************************)
\* C30: when every started operation settles, every caller suspended in a
\* category's wait queue is admitted in the end and its operation is started.
C30_WaiterEventuallyStarted ==
  \A p \in Calls : (pc[p] = "waiting") ~> (p \in invoked)

\* C30 witness: a call that was suspended behind another waiter of its
\* category has had its operation started.
C30_Witness ==
  \E p, q \in Calls :
    /\ q < p /\ cat[q] = cat[p]
    /\ {p, q} \subseteq waited
    /\ p \in invoked

(***************************************************************************)
(* Claims about the secure wrapper                                         *)
(***************************************************************************)
\* the position of step x in the steps of the call, 0 when it did not happen
StepIndex(x) ==
  LET at == {i \in 1..Len(secure.steps) : secure.steps[i] = x}
  IN IF at = {} THEN 0 ELSE CHOOSE i \in at : TRUE

\* C21: a call of the secure wrapper validates its input, then consults the
\* rate limiter, then acquires a concurrency slot, then runs the operation,
\* and a call rejected at one step performs none of the later ones: a call
\* whose input fails validation consumes no rate-limit quota.
C21_ValidateLimitAcquireRun ==
  /\ (secure.state # "idle" /\ ~secure.valid) =>
       StepIndex("rateLimit") = 0 /\ StepIndex("operation") = 0
  /\ StepIndex("rateLimit") > 0 =>
       0 < StepIndex("validate") /\ StepIndex("validate") < StepIndex("rateLimit")
  /\ StepIndex("operation") > 0 =>
       /\ 0 < StepIndex("rateLimit")
       /\ StepIndex("rateLimit") < StepIndex("acquire")
       /\ StepIndex("acquire") < StepIndex("operation")

\* C22: a call of the secure function that reached its operation settles once:
\* with the operation's outcome when the operation settled before
\* maxExecutionTime had elapsed, with the timeout failure at maxExecutionTime
\* otherwise; the event that comes second yields no second result and no
\* unhandled rejection.
C22_SettlesOnceNoUnhandled ==
  StepIndex("operation") > 0 =>
    /\ Len(secure.results) <= 1
    /\ secure.unhandled = 0
    /\ secure.state = "settled" =>
         /\ Len(secure.results) = 1
         /\ \/ /\ secure.results[1] \in OpOutcomes
               /\ secure.settledAt <= secure.startedAt + MaxExecutionTime
            \/ /\ secure.results[1] = "timeout"
               /\ secure.settledAt = secure.startedAt + MaxExecutionTime

(***************************************************************************)
(* Claims about validatePath                                               *)
(***************************************************************************)
\* the rules of validatePath, each asked on its own of the call made
Violates(k) ==
  LET str == pathCall.input.str
      opts == pathCall.opts
      norm == Normalize(str)
      ext == ToLowerCase(Extname(norm))
      abs == Resolve(norm)
  IN CASE k = 1 -> pathCall.input.type # "string" \/ str = <<>>
       [] k = 2 -> Width(str) > opts.maxLength
       [] k = 3 -> \/ \E i \in 1..(Len(str) - 1) : str[i] = "." /\ str[i + 1] = "."
                   \/ SystemPathPattern(str) \/ WindowsPattern(str)
                   \/ \E i \in 1..Len(str) : str[i] \in ControlBytes
       [] k = 5 -> \E i \in 1..(Len(norm) - 1) : norm[i] = "." /\ norm[i + 1] = "."
       [] k = 6 -> norm[1] = "/" /\ ~opts.allowAbsolute
       [] k = 7 -> /\ ext # <<>>
                   /\ \/ ext \in opts.blockedExtensions
                      \/ opts.allowedExtensions.given /\ ext \notin opts.allowedExtensions.list
       [] k = 8 -> \/ ~\E d \in securityConfig.allowedDirectories : StartsWith(abs, Resolve(d))
                   \/ \E d \in securityConfig.blockedDirectories : StartsWith(abs, Resolve(d))

\* the rules in the order of the claim (4 and 5 are one test)
RuleOrder == <<1, 2, 3, 5, 6, 7, 8>>

\* the messages of each rule
RuleReasons(k) ==
  CASE k = 1 -> {"Invalid path: must be a non-empty string"}
    [] k = 2 -> {"Path too long"}
    [] k = 3 -> {"Path contains dangerous patterns"}
    [] k = 5 -> {"Path traversal detected after normalization"}
    [] k = 6 -> {"Absolute paths not allowed"}
    [] k = 7 -> {"File extension not allowed", "File extension not in allowed list"}
    [] k = 8 -> {"Path not within allowed directories", "Path within blocked directory"}

\* the positions in RuleOrder of the rules the call's input violates; a value
\* that is no string, or the empty string, violates the first rule only
ViolatedAt ==
  IF Violates(1) THEN {1}
  ELSE {i \in 2..Len(RuleOrder) : Violates(RuleOrder[i])}

\* C23: validatePath reports the earliest violated rule in the order non-empty
\* string, length, dangerous patterns, traversal after normalization,
\* absolute-path policy, extension lists, directory lists; and it returns a
\* path exactly when no rule is violated.
C23_EarliestViolatedRule ==
  pathCall.op = "validatePath" =>
    /\ pathCall.ret.ok <=> ViolatedAt = {}
    /\ ~pathCall.ret.ok =>
         LET first == CHOOSE i \in ViolatedAt : \A j \in ViolatedAt : i <= j
         IN /\ pathCall.ret.rule = RuleOrder[first]
            /\ pathCall.ret.reason \in RuleReasons(RuleOrder[first])

\* C23 witness: an absolute path with a blocked extension outside the allowed
\* directories, where absolute paths are not allowed: three rules are
\* violated and the absolute-path rejection is the one reported.
C23_Witness ==
  /\ pathCall.op = "validatePath"
  /\ {5, 6, 7} \subseteq ViolatedAt
  /\ pathCall.ret.reason = "Absolute paths not allowed"

\* the kinds of dangerous content the claims name
HasTraversal(str) == \E i \in 1..(Len(str) - 1) : str[i] = "." /\ str[i + 1] = "."

HasControlByte(str) == \E i \in 1..Len(str) : str[i] \in ControlBytes

HasSystemPrefix(str) ==
  \E pre \in {<<"/", "etc", "/", "passwd">>, <<"/", "etc", "/", "shadow">>,
               <<"/", "proc", "/">>, <<"/", "sys", "/">>, <<"/", "dev", "/">>,
               <<"/", "boot", "/">>, <<"/", "root", "/">>} :
    Includes(ToLowerCase(str), pre)

\* what validatePath answers, under the call's options and configuration, to
\* a name with a null byte and to a sensitive system path
NullByteReason ==
  ValidatePathOp([type |-> "string", str |-> <<"x", "NUL">>], pathCall.opts, securityConfig).reason

SystemPathReason ==
  ValidatePathOp([type |-> "string", str |-> <<"/", "etc", "/", "passwd">>],
                 pathCall.opts, securityConfig).reason

\* C24: an input rejected for a `..` sequence gets a reason of its own, which
\* is neither the reason given for a null byte nor the one given for a
\* sensitive system path.
C24_TraversalReasonDistinct ==
  (pathCall.op = "validatePath" /\ HasTraversal(pathCall.input.str)
     /\ ~HasControlByte(pathCall.input.str) /\ ~HasSystemPrefix(pathCall.input.str)
     /\ pathCall.ret.rule = 3) =>
    /\ pathCall.ret.reason # NullByteReason
    /\ pathCall.ret.reason # SystemPathReason

\* C25: validatePath returns no path for an input that contains a `..`
\* sequence, a null byte or control character, or a sensitive system prefix,
\* whatever the options and the directory configuration.
C25_DangerousNeverAccepted ==
  (pathCall.op = "validatePath" /\ pathCall.ret.ok) =>
    /\ ~HasTraversal(pathCall.input.str)
    /\ ~HasControlByte(pathCall.input.str)
    /\ ~HasSystemPrefix(pathCall.input.str)

\* C25 witness: a relative name with a null byte, short enough and under the
\* allowed directory, was rejected with absolute paths allowed.
C25_Witness ==
  /\ pathCall.op = "validatePath" /\ ~pathCall.ret.ok
  /\ pathCall.input.str = <<"src", "/", "x", "NUL">>
  /\ pathCall.opts.allowAbsolute /\ pathCall.opts.maxLength = DefaultMaxLength

\* p is root or lies beneath it, by directory boundary
Beneath(p, root) ==
  \/ p = root
  \/ root = <<"/">> /\ StartsWith(p, root)
  \/ StartsWith(p, root \o <<"/">>)

\* C26: every returned path is absolute, is equal to or beneath an allowed
\* directory, and is neither equal to nor beneath a blocked directory.
C26_ContainedByBoundary ==
  (pathCall.op = "validatePath" /\ pathCall.ret.ok) =>
    /\ pathCall.ret.path # <<>> /\ pathCall.ret.path[1] = "/"
    /\ \E d \in securityConfig.allowedDirectories : Beneath(pathCall.ret.path, Resolve(d))
    /\ \A d \in securityConfig.blockedDirectories : ~Beneath(pathCall.ret.path, Resolve(d))

\* C27: no returned path has an extension that is on the blocked-extension
\* list when the two are compared without regard to case; and a rejection for
\* the extension names the extension.
C27_BlockedExtensionNeverAccepted ==
  /\ (pathCall.op = "validatePath" /\ pathCall.ret.ok) =>
       ToLowerCase(Extname(pathCall.ret.path))
         \notin {ToLowerCase(e) : e \in pathCall.opts.blockedExtensions}
  /\ (pathCall.op = "validatePath" /\ pathCall.ret.reason = "File extension not allowed") =>
       pathCall.ret.detail = ToLowerCase(Extname(Normalize(pathCall.input.str)))

\* the words of a command line: str.split(" ")
Words(str) ==
  LET RECURSIVE S(_, _, _)
      S(t, cur, acc) ==
        IF t = <<>> THEN Append(acc, cur)
        ELSE IF Head(t) = " " THEN S(Tail(t), <<>>, Append(acc, cur))
        ELSE S(Tail(t), Append(cur, Head(t)), acc)
  IN S(str, <<>>, <<>>)

\* the call's base command, the first space-delimited word in lower case, is
\* on the blocklist of destructive commands
BlocklistedBase == ToLowerCase(Words(cmdInput.command.str)[1]) \in DANGEROUS_COMMANDS

\* the command followed by its arguments, all separated by single spaces
Invocation == cmdInput.command.str \o <<" ">> \o JoinArgs(cmdInput.args)

\* the invocation holds a shell metacharacter, a logical operator, or a
\* redirection whose target starts with "/"
MetaInInvocation ==
  \/ \E i \in 1..Len(Invocation) :
       Invocation[i] \in {";", "|", "&", Backquote, "$", "(", ")", "{", "}", "[", "]"}
  \/ \E i, j \in 1..Len(Invocation) :
       /\ i < j
       /\ Invocation[i] \in {">", "<"}
       /\ Invocation[j] = "/"
       /\ \A k \in (i + 1)..(j - 1) : Invocation[k] \in Whitespace

\* C28: validateCommand rejects every invocation whose base command is on the
\* blocklist (compared without regard to case) and every invocation whose
\* command-plus-arguments string holds a shell metacharacter or a redirection
\* to an absolute path; it returns normally only when neither is the case.
C28_DangerousCommandRejected ==
  (cmdCall.op = "validateCommand" /\ cmdInput.command.type = "string"
     /\ cmdInput.command.str # <<>>) =>
    (cmdCall.ret.ok => ~BlocklistedBase /\ ~MetaInInvocation)

\* C28 witness: "RM" with the arguments -rf and / was rejected as the
\* dangerous command rm.
C28_Witness ==
  /\ cmdCall.op = "validateCommand" /\ ~cmdCall.ret.ok
  /\ cmdInput.command.str = <<"RM">>
  /\ cmdInput.args = <<[type |-> "string", str |-> <<"-", "rf">>],
                       [type |-> "string", str |-> <<"/">>]>>
  /\ cmdCall.ret.reason = "Dangerous command not allowed"
  /\ cmdCall.ret.detail = <<"rm">>

\* a word of the command, in lower case, is on executeCommand's dangerous list
ListedCommand ==
  /\ cmdInput.command.type = "string"
  /\ \E i \in 1..Len(Words(cmdInput.command.str)) :
       \E name \in ExecDangerousCommands :
         ToLowerCase(Words(cmdInput.command.str)[i]) = <<name>>

\* C29: executeCommand hands no command on its dangerous list to exec: for
\* such a command it returns, without calling exec and without throwing, a
\* result with a non-zero exitCode and the stderr "Dangerous command not
\* allowed".
C29_DangerousNeverExecuted ==
  (execCall.op # "new" /\ ListedCommand) =>
    /\ ~execCall.exec.called
    /\ execCall.op = "returned"
    /\ execCall.ret.given
    /\ execCall.ret.exitCode # ExitCode(0)
    /\ execCall.ret.stderr = "Dangerous command not allowed"

\* C29 witness: rm with the arguments -rf and / came back as a result with
\* exit code 1, and exec was not called.
C29_Witness ==
  /\ execCall.op = "returned" /\ ~execCall.exec.called
  /\ cmdInput.command.str = <<"rm">>
  /\ cmdInput.args = <<[type |-> "string", str |-> <<"-", "rf">>],
                       [type |-> "string", str |-> <<"/">>]>>
  /\ execCall.ret.exitCode = ExitCode(1)
  /\ execCall.ret.detail = <<"rm">>

\* the waiters of category c whose resolve was called and whose continuation
\* has not run yet
WokenOf(c) == {p \in Calls : pc[p] = "woken" /\ cat[p] = c}

\* C31: work conservation.  A completion wakes the head of a non-empty queue
\* and nobody otherwise, so whenever callers wait in a category's queue, the
\* running operations plus the woken waiters fill the category's slots.
C31_NoIdleSlotWhileWaiting ==
  \A c \in Categories :
    concurrencyLimiters[c].queue # <<>> =>
      concurrencyLimiters[c].current + Cardinality(WokenOf(c))
        >= concurrencyLimiters[c].maxConcurrent

\* C31 witness: one caller still waits in the queue of searches while the slot
\* freed by a completion is held by a woken waiter that has not resumed.
C31_Witness ==
  /\ concurrencyLimiters["searches"].queue # <<>>
  /\ concurrencyLimiters["searches"].current = 0
  /\ Cardinality(WokenOf("searches")) = 1

\* the call that takes a step: it is made, it resumes, or it finishes
Acts(p) == pc[p] \in {"idle", "woken", "settled"} /\ pc'[p] # pc[p]

\* C32: a step of a call changes the counter and the queue of its own
\* category only, and a call is suspended only when its own category is full.
C32_CategoriesIndependent ==
  [][\A p \in Calls : Acts(p) =>
       /\ \A c \in Categories :
            c # cat'[p] => concurrencyLimiters'[c] = concurrencyLimiters[c]
       /\ pc'[p] = "waiting" =>
            concurrencyLimiters[cat'[p]].current >= concurrencyLimiters[cat'[p]].maxConcurrent]_vars

\* C32 witness: searches is saturated and has a waiter, and a later call of
\* fileOps runs.
C32_Witness ==
  \E p, q, r \in Calls :
    /\ p < q /\ q < r
    /\ cat[p] = "searches" /\ pc[p] = "running"
    /\ cat[q] = "searches" /\ pc[q] = "waiting"
    /\ cat[r] = "fileOps" /\ pc[r] = "running"

\* C33: every set call terminates: the eviction loop removes an entry on each
\* iteration and stops once size < maxSize, whatever is stored and whatever
\* the keys are.
C33_SetTerminates == ~hung

\* the entries a set step removed for capacity: stored before, gone after, and
\* not the entry of the key that was set
EvictedBy(k) == {i \in 1..Len(cache) : cache[i].key # k /\ cache[i].key \notin KeysOf(cache')}

\* C34: an expired entry occupies no capacity: a set evicts an entry that has
\* not expired only when no expired entry is left in the map.
C34_ExpiredHoldsNoCapacity ==
  [][(last'.op = "set" /\ stats'.evictions > stats.evictions) =>
       \A i \in EvictedBy(last'.key) :
         ~Expired(cache[i], now) => \A j \in 1..Len(cache) : ~Expired(cache[j], now)]_vars

\* C35: has(k) leaves the counters, the order of the map and every entry as
\* they were; the one thing it may do is remove k's entry, when it has expired.
C35_HasOnlyDropsExpired ==
  [][last'.op = "has" =>
       /\ stats' = stats
       /\ \/ cache' = cache
          \/ /\ last'.key \in KeysOf(cache)
             /\ Expired(EntryOf(cache, last'.key), now)
             /\ cache' = MapDelete(cache, last'.key)]_vars

\* C35 witness: has returned true for the least recently used of two entries,
\* which is still the first of the map with its accessCount of 1.
C35_Witness ==
  /\ enabled /\ last.op = "has" /\ last.ret = "true"
  /\ Len(cache) = 2 /\ cache[1].key = last.key /\ cache[1].accessCount = 1

\* C36: with the cache enabled a get adds one to exactly one of hits and misses
\* (a miss exactly when it returns nothing, an expired entry included), so that
\* hits + misses counts the gets since the last clear; a set adds to evictions
\* the number of entries it removed for capacity; has, delete, the sweep and
\* the passing of time leave the counters alone; clear zeroes them.
C36_StatsAccounting ==
  [][/\ (last'.op = "get" /\ enabled) =>
          /\ stats'.hits + stats'.misses = stats.hits + stats.misses + 1
          /\ stats'.evictions = stats.evictions
          /\ stats'.misses = stats.misses + (IF last'.ret = Miss THEN 1 ELSE 0)
     /\ last'.op = "set" =>
          /\ stats'.hits = stats.hits /\ stats'.misses = stats.misses
          /\ stats'.evictions - stats.evictions = Cardinality(EvictedBy(last'.key))
     /\ last'.op \in {"has", "delete", "cleanup", "tick"} => stats' = stats
     /\ last'.op = "clear" => stats' = [hits |-> 0, misses |-> 0, evictions |-> 0]]_vars

\* C36 witness: after one hit, a get found its entry expired and was counted
\* as a miss; nothing was ever evicted.
C36_Witness ==
  /\ enabled /\ last.op = "get" /\ last.had /\ last.ret = Miss
  /\ stats = [hits |-> 1, misses |-> 1, evictions |-> 0]

\* getStatus(id) agrees with the checkLimit(id) that would be made at the same
\* instant on the same store: the same allowed, and one more remaining than
\* an allowed checkLimit leaves (none when it rejects)
StatusPredictsCheck(id) ==
  LET s == GetStatusOp(store, id, clock).ret
      c == CheckLimitOp(store, id, clock).ret
  IN /\ s.allowed = c.allowed
     /\ s.remaining = (IF c.allowed THEN c.remaining + 1 ELSE 0)

\* C37 as stated: getStatus predicts checkLimit in every reachable state, for
\* every identifier.
C37_StatusPredictsCheckAlways == \A id \in Ids : StatusPredictsCheck(id)

\* C37, amended: getStatus predicts checkLimit in every reachable state of an
\* enabled limiter; a disabled limiter answers both calls with allowed and
\* remaining = maxRequests.
C37_StatusPredictsCheckWhenEnabled ==
  /\ rateEnabled => \A id \in Ids : StatusPredictsCheck(id)
  /\ ~rateEnabled =>
       \A id \in Ids :
         /\ GetStatusOp(store, id, clock).ret = CheckLimitOp(store, id, clock).ret
         /\ GetStatusOp(store, id, clock).ret.remaining = MaxRequests

\* C37 witness: getStatus has just reported an exhausted window of an enabled
\* limiter as not allowed.
C37_Witness ==
  /\ rateEnabled /\ call.op = "getStatus" /\ call.id \in Ids
  /\ ~call.ret.allowed /\ call.ret.remaining = 0
  /\ call.ret = GetStatusOp(store, call.id, clock).ret

\* what the store holds for b is the same before and after the step
SameEntry(b) ==
  /\ b \in DOMAIN store' <=> b \in DOMAIN store
  /\ b \in DOMAIN store => store'[b] = store[b]

\* C38: a checkLimit, getStatus or reset of one identifier (directly or
\* through a wrapper) leaves every other identifier's stored count and window
\* end as they were, and a rejection is due to the caller's own count.
C38_IdentitiesIndependent ==
  [][/\ call'.op \in {"checkLimit", "getStatus", "reset"} \cup Wrappers =>
          \A b \in Ids \ {call'.id} : SameEntry(b)
     /\ (call'.op = "checkLimit" /\ ~call'.ret.allowed) =>
          /\ call'.id \in DOMAIN store
          /\ store[call'.id].count >= MaxRequests]_vars

\* C38 witness: with u1's quota exhausted and its window still open, a
\* checkLimit of u2 was allowed with a full window ahead.
C38_Witness ==
  /\ call.op = "checkLimit" /\ call.id = "u2"
  /\ call.ret.allowed /\ call.ret.remaining = MaxRequests - 1
  /\ "u1" \in DOMAIN store
  /\ store["u1"].count = MaxRequests /\ ~WindowOver(store["u1"], clock)

\* C39: the traversal check made after normalization never decides: a path
\* whose normalized form contains `..` contains `..` before normalization and
\* is rejected by the dangerous-pattern scan, the rejection "Path traversal
\* detected after normalization" is never given, and an input with `..` is
\* rejected even when it would normalize to a clean path.
C39_RecheckNeverDecides ==
  (pathCall.op = "validatePath" /\ pathCall.input.type = "string") =>
    /\ pathCall.ret.rule # 5
    /\ pathCall.ret.reason # "Path traversal detected after normalization"
    /\ Includes(Normalize(pathCall.input.str), DotDot) => Includes(pathCall.input.str, DotDot)
    /\ Includes(pathCall.input.str, DotDot) => ~pathCall.ret.ok

\* C39 witness: x/.. , which normalizes to the allowed working directory
\* itself, was rejected by the dangerous-pattern scan.
C39_Witness ==
  /\ pathCall.op = "validatePath"
  /\ pathCall.input.str = <<"x", "/", ".", ".">>
  /\ Normalize(pathCall.input.str) = <<".">>
  /\ ~pathCall.ret.ok /\ pathCall.ret.rule = 3
  /\ pathCall.opts.maxLength = DefaultMaxLength

\* C40: when an allowedExtensions list is passed, every returned path has an
\* extension on that list, file names without extension included.
C40_AllowListEnforced ==
  (pathCall.op = "validatePath" /\ pathCall.ret.ok /\ pathCall.opts.allowedExtensions.given) =>
    ToLowerCase(Extname(pathCall.ret.path)) \in pathCall.opts.allowedExtensions.list

====
